---- MODULE Spec2Model ----
(***************************************************************************)
(* Model of the entity pipeline of NER_flair_streamlit.py: the class       *)
(* EntityLinker (extraction, type mapping, validation, overlap removal,    *)
(* geographical context detection) and StreamlitEntityLinker.process_text. *)
(*                                                                         *)
(* A text is a sequence of one-character strings.  An entity is a record   *)
(* with the keys of the Python dict (text, type, start, end and, for a     *)
(* tagger span, label).                                                    *)
(***************************************************************************)
EXTENDS Integers, Sequences, FiniteSets, TLC

VARIABLES
    pc,          \* position of the running function
    candidates,  \* the list as it was handed to _remove_overlapping_entities
    entities,    \* the list `entities` (sorted in place at line 665)
    filtered,    \* the list `filtered` of _remove_overlapping_entities
    idx,         \* index of the next element of the loop at line 668
    spans,       \* sentence.get_spans('ner'): the tagger's labelled spans
    addresses,   \* the matches of the two address patterns, in finditer order
    call,        \* a pending call of a pure helper, with its arguments
    ret,         \* its return value
    context_clues,  \* the list `context_clues` of _detect_geographical_context
    session,     \* st.session_state: entities, processed_text, html_content,
                 \* analysis_title, last_processed_hash
    input_text,  \* process_text: the argument `text` of the running request
    title,       \* process_text: the argument title
    pt_entities, \* process_text: its local list `entities`
    geo_context, \* get_coordinates: its local `context_clues` (line 390)
    cache,       \* st.cache_data: (function, argument, result) of the cached calls
    nreq,        \* number of process_text calls so far
    loop_i,      \* position of the running `for entity in entities` loop
    place_entities, \* get_coordinates: its argument, as the positions in
                 \* pt_entities of the dicts it holds (line 1043 shares them)
    called_with, \* get_coordinates: the entities as they were when it was called
    strategy,    \* the geocoding strategy in progress: its search terms and
                 \* the position of its loop
    events,      \* the latest external calls and rate-limit delays, oldest first
    sent,        \* how often each external call was made: a function from
                 \* <<entity position, function, provider, search term>>
    invoked,     \* get_coordinates: the strategies invoked, in order, as
                 \* <<entity position, strategy>>
    ncalls       \* number of get_coordinates calls so far

vars ==
    <<pc, candidates, entities, filtered, idx, spans, addresses, call, ret,
      context_clues, session, input_text, title, pt_entities, geo_context, cache,
      nreq, loop_i, place_entities, called_with, strategy, events, sent, invoked,
      ncalls>>

extractVars == <<spans, addresses>>
pureVars == <<call, ret>>
geoVars == <<context_clues>>
procVars == <<session, input_text, title, pt_entities, geo_context, cache, nreq>>
stepVars ==
    <<loop_i, place_entities, called_with, strategy, events, sent, invoked, ncalls>>
resolveVars == <<pc, candidates, entities, filtered, idx>>

\* entity.get(key) is not None: no code path stores None in an entity, so the
\* value is None exactly when the key is missing.
HasValue(e, k) == k \in DOMAIN e

\* The truth value of entity.get(key) for a key that holds a string.
Truthy(e, k) == k \in DOMAIN e /\ e[k] # ""

\* StreamlitEntityLinker.__init__, lines 825-835: the session state of a fresh
\* session.
InitSession ==
    [entities |-> <<>>, processed_text |-> <<>>, html_content |-> <<>>,
     analysis_title |-> "text_analysis", last_processed_hash |-> <<>>]

\* No request is being processed and none has been.
ProcessIdle ==
    /\ session = InitSession
    /\ input_text = <<>>
    /\ title = "text_analysis"
    /\ pt_entities = <<>>
    /\ geo_context = <<>>
    /\ cache = {}
    /\ nreq = 0

\* No linking or geocoding loop is running and none has run.
StepIdle ==
    /\ loop_i = 0
    /\ place_entities = <<>>
    /\ called_with = <<>>
    /\ strategy = [name |-> "none"]
    /\ events = <<>>
    /\ sent = <<>>
    /\ invoked = <<>>
    /\ ncalls = 0

\* No call of extract_entities or of a helper is in progress.
ResolveIdle ==
    /\ candidates = <<>>
    /\ entities = <<>>
    /\ filtered = <<>>
    /\ idx = 1
ExtractIdle == spans = <<>> /\ addresses = <<>>
HelperIdle == call = [fn |-> "none"] /\ ret = "none" /\ context_clues = <<>>

(***************************************************************************)
(* Bounds of the model.                                                    *)
(***************************************************************************)
MaxPos == 2        \* character offsets range over 0..MaxPos
MaxEnts == 3       \* longest candidate list handed to the resolver
MaxTextLen == 3    \* longest entity text of a resolver candidate

\* A text of n characters (only its length matters to the resolver).
Filler(n) == [i \in 1..n |-> "x"]

\* The half-open spans with 0 <= start < end <= MaxPos.
Intervals == {iv \in (0..MaxPos) \X (0..MaxPos) : iv[1] < iv[2]}

\* Candidates of the resolver: a span and a text (len(text) is independent of
\* the span: a tagger span's text is the tagger's, not a slice of the source).
Candidates ==
    {[text |-> Filler(n), start |-> iv[1], end |-> iv[2]] :
        n \in 1..MaxTextLen, iv \in Intervals}

SeqsUpTo(S, n) == UNION {[1..k -> S] : k \in 0..n}

(***************************************************************************)
(* _remove_overlapping_entities, lines 663-685.                            *)
(***************************************************************************)
\* list.sort(key=start) is stable: an element goes after every element whose
\* key is less than or equal to its own.
InsertByStart(sorted, e) ==
    LET k == Cardinality({i \in 1..Len(sorted) : sorted[i].start <= e.start})
    IN  SubSeq(sorted, 1, k) \o <<e>> \o SubSeq(sorted, k + 1, Len(sorted))

\* Mutant of SortByStart: the list is left in the order it was given.
KeepOrder(s) == s

RECURSIVE SortByStart(_)
SortByStart(s) ==
    IF s = <<>> THEN <<>>
    ELSE InsertByStart(SortByStart(SubSeq(s, 1, Len(s) - 1)), s[Len(s)])

\* Mutant of Overlaps: a span that lies inside the accepted one is not noticed.
OverlapsPastEnd(entity, existing) ==
    entity.start < existing.end /\ entity.end > existing.end

\* line 672
Overlaps(entity, existing) ==
    entity.start < existing.end /\ entity.end > existing.start

\* Mutant of Longer: compares the spans' widths instead of the texts' lengths.
LongerBySpan(entity, existing) ==
    entity.end - entity.start > existing.end - existing.start

\* Mutant of Longer: a candidate of equal length evicts the accepted entity.
LongerOrEqual(entity, existing) == Len(entity.text) >= Len(existing.text)

\* line 674
Longer(entity, existing) == Len(entity.text) > Len(existing.text)

\* The inner loop stops (break) at the first element of filtered that overlaps
\* the candidate: its index, or 0 when there is none.
FirstOverlap(entity, flt) ==
    IF \E k \in 1..Len(flt) : Overlaps(entity, flt[k])
    THEN CHOOSE k \in 1..Len(flt) :
            /\ Overlaps(entity, flt[k])
            /\ \A j \in 1..(k - 1) : ~Overlaps(entity, flt[j])
    ELSE 0

\* list.remove(x): drops the first element equal to x.
ListRemove(s, x) ==
    LET k == CHOOSE i \in 1..Len(s) : s[i] = x /\ \A j \in 1..(i - 1) : s[j] # x
    IN  SubSeq(s, 1, k - 1) \o SubSeq(s, k + 1, Len(s))

\* One iteration of the loop at line 668: the new value of filtered.
ResolveOne(flt, entity) ==
    LET k == FirstOverlap(entity, flt) IN
    IF k = 0 THEN Append(flt, entity)
    ELSE IF Longer(entity, flt[k]) THEN Append(ListRemove(flt, flt[k]), entity)
    ELSE flt

\* line 665
SortEntities ==
    /\ pc = "call"
    /\ entities' = SortByStart(entities)
    /\ filtered' = <<>>
    /\ idx' = 1
    /\ pc' = "loop"
    /\ UNCHANGED <<candidates, extractVars, pureVars, geoVars, procVars, stepVars>>

\* lines 668-683, one candidate
ResolveStep ==
    /\ pc = "loop"
    /\ idx <= Len(entities)
    /\ filtered' = ResolveOne(filtered, entities[idx])
    /\ idx' = idx + 1
    /\ UNCHANGED <<pc, candidates, entities, extractVars, pureVars, geoVars, procVars, stepVars>>

\* line 685
ReturnFiltered ==
    /\ pc = "loop"
    /\ idx > Len(entities)
    /\ pc' = "done"
    /\ UNCHANGED <<candidates, entities, filtered, idx, extractVars, pureVars, geoVars, procVars, stepVars>>

(***************************************************************************)
(* Characters.  str.isupper, str.isalpha, str.strip and str.split are      *)
(* modelled on ASCII letters, digits, white space and punctuation.         *)
(***************************************************************************)
UpperChars ==
    {"A", "B", "C", "D", "E", "F", "G", "H", "I", "J", "K", "L", "M",
     "N", "O", "P", "Q", "R", "S", "T", "U", "V", "W", "X", "Y", "Z"}
LowerChars ==
    {"a", "b", "c", "d", "e", "f", "g", "h", "i", "j", "k", "l", "m",
     "n", "o", "p", "q", "r", "s", "t", "u", "v", "w", "x", "y", "z"}
DigitChars == {"0", "1", "2", "3", "4", "5", "6", "7", "8", "9"}
SpaceChars == {" ", "\t", "\n"}
AlphaChars == UpperChars \cup LowerChars

(***************************************************************************)
(* _map_flair_entity_type, lines 206-234.                                  *)
(***************************************************************************)
\* The dict `mapping`, as its (key, value) pairs.
mapping ==
    { <<"PER", "PERSON">>, <<"ORG", "ORGANIZATION">>, <<"LOC", "LOCATION">>,
      <<"MISC", "MISC">>,
      <<"B-PER", "PERSON">>, <<"I-PER", "PERSON">>,
      <<"B-ORG", "ORGANIZATION">>, <<"I-ORG", "ORGANIZATION">>,
      <<"B-LOC", "LOCATION">>, <<"I-LOC", "LOCATION">>,
      <<"B-MISC", "MISC">>, <<"I-MISC", "MISC">>,
      <<"PERSON", "PERSON">>, <<"ORGANIZATION", "ORGANIZATION">>,
      <<"GPE", "LOCATION">>, <<"LOCATION", "LOCATION">>,
      <<"FACILITY", "LOCATION">>, <<"PRODUCT", "MISC">>, <<"EVENT", "MISC">>,
      <<"WORK_OF_ART", "MISC">>, <<"LANGUAGE", "MISC">> }

\* Mutant of MapFlairEntityType: mapping.get(flair_label, 'MISC').
MapFlairEntityTypeDefaultMisc(flair_label) ==
    IF \E kv \in mapping : kv[1] = flair_label
    THEN (CHOOSE kv \in mapping : kv[1] = flair_label)[2]
    ELSE "MISC"

\* line 234: mapping.get(flair_label, flair_label)
MapFlairEntityType(flair_label) ==
    IF \E kv \in mapping : kv[1] = flair_label
    THEN (CHOOSE kv \in mapping : kv[1] = flair_label)[2]
    ELSE flair_label

(***************************************************************************)
(* _is_valid_entity, lines 621-639.                                        *)
(***************************************************************************)
RECURSIVE LStrip(_)
LStrip(t) ==
    IF t # <<>> /\ t[1] \in SpaceChars THEN LStrip(Tail(t)) ELSE t

RECURSIVE RStrip(_)
RStrip(t) ==
    IF t # <<>> /\ t[Len(t)] \in SpaceChars
    THEN RStrip(SubSeq(t, 1, Len(t) - 1)) ELSE t

\* str.strip()
Strip(t) == RStrip(LStrip(t))

\* The length of the first run of non-space characters of t.
RECURSIVE WordLen(_)
WordLen(t) ==
    IF t = <<>> \/ t[1] \in SpaceChars THEN 0 ELSE 1 + WordLen(Tail(t))

\* str.split(): the maximal runs of non-space characters, in order.
RECURSIVE Split(_)
Split(t) ==
    LET u == LStrip(t) IN
    IF u = <<>> THEN <<>>
    ELSE <<SubSeq(u, 1, WordLen(u))>> \o Split(SubSeq(u, WordLen(u) + 1, Len(u)))

\* str.isalpha()
IsAlpha(word) == word # <<>> /\ \A i \in 1..Len(word) : word[i] \in AlphaChars

\* str.isupper() of one character
IsUpper(c) == c \in UpperChars

\* Mutant of IsValidEntity: only the first word of a PERSON span is looked at.
IsValidEntityFirstWord(entity_text, entity_type) ==
    IF Len(Strip(entity_text)) <= 1 THEN FALSE
    ELSE IF entity_type = "PERSON"
         THEN LET words == Split(entity_text) IN
              IsAlpha(words[1]) => IsUpper(words[1][1])
         ELSE TRUE

\* lines 624-639 (the third parameter, flair_span, is not read)
IsValidEntity(entity_text, entity_type) ==
    IF Len(Strip(entity_text)) <= 1 THEN FALSE
    ELSE IF entity_type = "PERSON"
         THEN LET words == Split(entity_text) IN
              \A i \in 1..Len(words) : IsAlpha(words[i]) => IsUpper(words[i][1])
         ELSE TRUE

(***************************************************************************)
(* SpecPure: one call of _map_flair_entity_type or of _is_valid_entity.    *)
(***************************************************************************)
MaxValLen == 4     \* longest text handed to _is_valid_entity

\* Labels a tagger may give: the table's, the excluded classes, and others.
Labels ==
    {kv[1] : kv \in mapping}
    \cup {"DATE", "TIME", "PERCENT", "MONEY", "QUANTITY", "ORDINAL", "CARDINAL"}
    \cup {"UNKNOWN_XYZ", "NORP", "LAW", "E-PER", "S-LOC", "per", "Person", ""}

ValidatorChars == {"A", "b", "1", ".", " "}
ValidatorTexts == SeqsUpTo(ValidatorChars, MaxValLen)
ValidatorTypes == {"PERSON", "ORGANIZATION", "LOCATION", "MISC", "UNKNOWN_XYZ"}

InitPure ==
    /\ call \in [fn : {"_map_flair_entity_type"}, flair_label : Labels]
            \cup [fn : {"_is_valid_entity"}, entity_text : ValidatorTexts,
                  entity_type : ValidatorTypes]
    /\ ret = "none"
    /\ context_clues = <<>>
    /\ pc = "call"
    /\ ResolveIdle
    /\ ExtractIdle
    /\ ProcessIdle
    /\ StepIdle

CallMapFlairEntityType ==
    /\ pc = "call"
    /\ call.fn = "_map_flair_entity_type"
    /\ ret' = MapFlairEntityType(call.flair_label)
    /\ pc' = "done"
    /\ UNCHANGED <<call, candidates, entities, filtered, idx, extractVars, geoVars, procVars, stepVars>>

CallIsValidEntity ==
    /\ pc = "call"
    /\ call.fn = "_is_valid_entity"
    /\ ret' = IsValidEntity(call.entity_text, call.entity_type)
    /\ pc' = "done"
    /\ UNCHANGED <<call, candidates, entities, filtered, idx, extractVars, geoVars, procVars, stepVars>>

NextPure == CallMapFlairEntityType \/ CallIsValidEntity

SpecPure == InitPure /\ [][NextPure]_vars

\* C6: _map_flair_entity_type is total: a label of the table maps to one of
\* PERSON, ORGANIZATION, LOCATION, MISC (B-PER to PERSON, GPE and FACILITY to
\* LOCATION) and any other label is returned unchanged.
C6_TableLabels ==
    {"PER", "ORG", "LOC", "MISC", "B-PER", "I-PER", "B-ORG", "I-ORG", "B-LOC",
     "I-LOC", "B-MISC", "I-MISC", "PERSON", "ORGANIZATION", "GPE", "LOCATION",
     "FACILITY", "PRODUCT", "EVENT", "WORK_OF_ART", "LANGUAGE"}

C6_MapTotal ==
    (pc = "done" /\ call.fn = "_map_flair_entity_type") =>
        /\ call.flair_label \in C6_TableLabels =>
              ret \in {"PERSON", "ORGANIZATION", "LOCATION", "MISC"}
        /\ call.flair_label = "B-PER" => ret = "PERSON"
        /\ call.flair_label \in {"GPE", "FACILITY"} => ret = "LOCATION"
        /\ call.flair_label \notin C6_TableLabels => ret = call.flair_label

\* C6 witness: a label outside the table went through the function unchanged.
C6_Witness ==
    /\ pc = "done"
    /\ call.fn = "_map_flair_entity_type"
    /\ call.flair_label = "UNKNOWN_XYZ"
    /\ ret = "UNKNOWN_XYZ"

\* The tokens of t in the sense of the claim: the pairs (i, j) that delimit a
\* maximal run of non-space characters.
C7_Tokens(t) ==
    {ij \in (1..Len(t)) \X (1..Len(t)) :
        /\ ij[1] <= ij[2]
        /\ \A k \in ij[1]..ij[2] : t[k] \notin SpaceChars
        /\ ij[1] = 1 \/ t[ij[1] - 1] \in SpaceChars
        /\ ij[2] = Len(t) \/ t[ij[2] + 1] \in SpaceChars}

C7_TrimmedLen(t) ==
    LET ns == {k \in 1..Len(t) : t[k] \notin SpaceChars} IN
    IF ns = {} THEN 0
    ELSE (CHOOSE hi \in ns : \A k \in ns : k <= hi)
         - (CHOOSE lo \in ns : \A k \in ns : k >= lo) + 1

\* C7: _is_valid_entity returns false exactly when the trimmed text has length
\* at most 1, or the type is PERSON and some purely alphabetic token does not
\* start with an uppercase letter; it returns true in every other case.
C7_ValidExactly ==
    (pc = "done" /\ call.fn = "_is_valid_entity") =>
        LET t == call.entity_text IN
        (ret = FALSE) <=>
            \/ C7_TrimmedLen(t) <= 1
            \/ /\ call.entity_type = "PERSON"
               /\ \E ij \in C7_Tokens(t) :
                    /\ \A k \in ij[1]..ij[2] : t[k] \in AlphaChars
                    /\ t[ij[1]] \notin UpperChars

\* C7 witness: a PERSON span whose first token is capitalised and whose second,
\* purely alphabetic token is not was rejected.
C7_Witness ==
    /\ pc = "done"
    /\ call.fn = "_is_valid_entity"
    /\ call.entity_type = "PERSON"
    /\ call.entity_text = <<"A", "b", " ", "b">>
    /\ ret = FALSE

(***************************************************************************)
(* SpecResolve: _remove_overlapping_entities on every candidate list.      *)
(***************************************************************************)
InitResolve ==
    /\ pc = "call"
    /\ candidates \in SeqsUpTo(Candidates, MaxEnts)
    /\ entities = candidates
    /\ filtered = <<>>
    /\ idx = 1
    /\ ExtractIdle
    /\ HelperIdle
    /\ ProcessIdle
    /\ StepIdle

NextResolve == SortEntities \/ ResolveStep \/ ReturnFiltered

SpecResolve == InitResolve /\ [][NextResolve]_vars

(***************************************************************************)
(* extract_entities, lines 163-204.                                        *)
(***************************************************************************)
\* Mutant of ExcludedTypes: two classes are missing from the list.
ExcludedTypesShort == {"DATE", "TIME", "PERCENT", "MONEY", "QUANTITY"}

\* The list written out at line 177 and again at line 184.
ExcludedTypes ==
    {"DATE", "TIME", "PERCENT", "MONEY", "QUANTITY", "ORDINAL", "CARDINAL"}

\* lines 176-195: what one tagger span adds to `entities`.
SpanEntities(ent) ==
    LET tag == ent.label
        entity_type == MapFlairEntityType(tag)
    IN  IF tag \in ExcludedTypes THEN <<>>
        ELSE IF entity_type \in ExcludedTypes THEN <<>>
        ELSE IF IsValidEntity(ent.text, entity_type)
             THEN << [text |-> ent.text, type |-> entity_type,
                      start |-> ent.start, end |-> ent.end, label |-> tag] >>
             ELSE <<>>

\* lines 171-195: the loop over sentence.get_spans('ner').
RECURSIVE TaggerEntities(_)
TaggerEntities(sp) ==
    IF sp = <<>> THEN <<>>
    ELSE SpanEntities(sp[1]) \o TaggerEntities(Tail(sp))

\* lines 168-199: tagger entities, then entities.extend(addresses).
ExtractCandidates ==
    /\ pc = "extract"
    /\ entities' = TaggerEntities(spans) \o addresses
    /\ candidates' = entities'
    /\ pc' = "call"
    /\ UNCHANGED <<filtered, idx, extractVars, pureVars, geoVars, procVars, stepVars>>

(***************************************************************************)
(* Spec: extract_entities on every tagger output and address match list.   *)
(***************************************************************************)
MaxSpans == 2      \* most spans the tagger returns
MaxAddrs == 1      \* most address matches

\* The (text, label) pairs of the tagger spans that extract_entities keeps: a
\* person and a place.
SpanKinds ==
    { [text |-> <<"A", "l">>, label |-> "PER"],
      [text |-> <<"A", "l">>, label |-> "GPE"] }

\* The (text, label) pairs of the spans it drops or passes through: an
\* uncapitalised person, a one-character span, a label outside the table, and
\* one span of every excluded class.
OtherKinds ==
    { [text |-> <<"a", "l">>, label |-> "PER"],
      [text |-> <<"A">>, label |-> "LOC"],
      [text |-> <<"A", "l">>, label |-> "UNKNOWN_XYZ"] }
    \cup [text : {<<"2", "1">>},
          label : {"DATE", "TIME", "PERCENT", "MONEY", "QUANTITY", "ORDINAL",
                   "CARDINAL"}]

\* The tagger's spans: a person or a place at every position, the other kinds
\* at one position.
TaggerSpans ==
    {[text |-> k.text, label |-> k.label, start |-> iv[1], end |-> iv[2]] :
        k \in SpanKinds, iv \in Intervals}
    \cup {[text |-> k.text, label |-> k.label, start |-> 0, end |-> MaxPos] :
            k \in OtherKinds}

\* lines 654-659: the dict of a match (its text is the matched slice).
AddressMatches ==
    {[text |-> Filler(iv[2] - iv[1]), type |-> "ADDRESS",
      start |-> iv[1], end |-> iv[2]] : iv \in Intervals}

Init ==
    /\ pc = "extract"
    /\ spans \in SeqsUpTo(TaggerSpans, MaxSpans)
    /\ addresses \in SeqsUpTo(AddressMatches, MaxAddrs)
    /\ ResolveIdle
    /\ HelperIdle
    /\ ProcessIdle
    /\ StepIdle

Next == ExtractCandidates \/ SortEntities \/ ResolveStep \/ ReturnFiltered

Spec == Init /\ [][Next]_vars

(***************************************************************************)
(* Properties of _remove_overlapping_entities.                             *)
(***************************************************************************)
\* The overlap relation of the specification: a.start < b.end and b.start < a.end.
Intersect(a, b) == a.start < b.end /\ b.start < a.end

Range(s) == {s[i] : i \in 1..Len(s)}

\* C1: no two entities of the list returned by _remove_overlapping_entities
\* overlap, whatever candidate list (each candidate with start < end) it is given.
C1_NoOverlapInOutput ==
    pc = "done" =>
        \A i, j \in 1..Len(filtered) :
            i # j => ~Intersect(filtered[i], filtered[j])

\* C1 witness: a list of three candidates with an overlapping pair went through
\* the resolver and two entities came out.
C1_Witness ==
    /\ pc = "done"
    /\ Len(candidates) = 3
    /\ \E i, j \in 1..3 : i # j /\ Intersect(candidates[i], candidates[j])
    /\ Len(filtered) = 2

\* C2: the returned list is a maximal non-overlapping subset of the input: every
\* candidate that is not in the output overlaps an entity that is in the output.
C2_MaximalSubset ==
    pc = "done" =>
        \A c \in Range(candidates) :
            c \notin Range(filtered) => \E f \in Range(filtered) : Intersect(c, f)

\* C3: given exactly two overlapping candidates of different text length, the
\* output is exactly the candidate with the longer text.
C3_LongerOfTwoWins ==
    (/\ pc = "done"
     /\ Len(candidates) = 2
     /\ Intersect(candidates[1], candidates[2])
     /\ Len(candidates[1].text) # Len(candidates[2].text))
    => filtered =
         << IF Len(candidates[1].text) > Len(candidates[2].text)
            THEN candidates[1] ELSE candidates[2] >>

\* C3 witness: the longer candidate starts after the shorter one, so it was
\* processed second and evicted the accepted shorter one.
C3_Witness ==
    /\ pc = "done"
    /\ Len(candidates) = 2
    /\ Intersect(candidates[1], candidates[2])
    /\ \E l, s \in 1..2 :
        /\ Len(candidates[l].text) > Len(candidates[s].text)
        /\ candidates[l].start > candidates[s].start
        /\ filtered = <<candidates[l]>>

(***************************************************************************)
(* Properties of extract_entities.                                         *)
(***************************************************************************)
\* The sorted list is the input list in start order, elements of equal start
\* in their input order.
C4_StableByStart(sorted, input) ==
    /\ Len(sorted) = Len(input)
    /\ \A i, j \in 1..Len(sorted) : i < j => sorted[i].start <= sorted[j].start
    /\ \A v \in 0..MaxPos :
        LET AtV(e) == e.start = v
        IN  SelectSeq(sorted, AtV) = SelectSeq(input, AtV)

\* A tagger entity carries its original label; an address match has none.
C4_FromTagger(e) == "label" \in DOMAIN e

C4_OrderInv ==
    pc \in {"loop", "done"} =>
        /\ C4_StableByStart(entities, candidates)
        /\ \A i, j \in 1..Len(entities) :
            (i < j /\ entities[i].start = entities[j].start
                   /\ ~C4_FromTagger(entities[i]))
            => ~C4_FromTagger(entities[j])

C4_TieStep ==
    (/\ pc = "loop"
     /\ idx <= Len(entities)
     /\ idx' = idx + 1
     /\ \E f \in Range(filtered) :
            /\ Intersect(entities[idx], f)
            /\ Len(entities[idx].text) = Len(f.text))
    => filtered' = filtered

\* C4: a candidate that overlaps an accepted entity of the same text length is
\* rejected and the accepted entity stays; candidates are processed in start
\* order, those of equal start in input order (tagger spans before addresses).
C4_TieKeepsIncumbent == [][C4_TieStep /\ C4_OrderInv']_vars

\* C4 witness: an address match with the start and the text length of an
\* accepted tagger entity was processed after it and rejected.
C4_Witness ==
    /\ pc = "loop"
    /\ idx > 1
    /\ ~C4_FromTagger(entities[idx - 1])
    /\ entities[idx - 1] \notin Range(filtered)
    /\ \E f \in Range(filtered) :
        /\ C4_FromTagger(f)
        /\ f.start = entities[idx - 1].start
        /\ Intersect(entities[idx - 1], f)
        /\ Len(f.text) = Len(entities[idx - 1].text)

\* C5: no entity returned by extract_entities has a type or an original label
\* among DATE, TIME, PERCENT, MONEY, QUANTITY, ORDINAL, CARDINAL.
C5_Excluded ==
    {"DATE", "TIME", "PERCENT", "MONEY", "QUANTITY", "ORDINAL", "CARDINAL"}

C5_NoExcludedType ==
    pc = "done" =>
        \A e \in Range(filtered) :
            /\ e.type \notin C5_Excluded
            /\ "label" \in DOMAIN e => e.label \notin C5_Excluded

\* C5 witness: the tagger returned a CARDINAL span and a person span, and the
\* person is the only entity returned.
C5_Witness ==
    /\ pc = "done"
    /\ \E i \in 1..Len(spans) : spans[i].label = "CARDINAL"
    /\ Len(filtered) = 1
    /\ filtered[1].type = "PERSON"
    /\ filtered[1].label = "PER"

(***************************************************************************)
(* _detect_geographical_context, lines 273-382.                            *)
(***************************************************************************)
\* str.lower() on ASCII letters.
UpperSeq ==
    <<"A", "B", "C", "D", "E", "F", "G", "H", "I", "J", "K", "L", "M",
      "N", "O", "P", "Q", "R", "S", "T", "U", "V", "W", "X", "Y", "Z">>
LowerSeq ==
    <<"a", "b", "c", "d", "e", "f", "g", "h", "i", "j", "k", "l", "m",
      "n", "o", "p", "q", "r", "s", "t", "u", "v", "w", "x", "y", "z">>

LowerChar(c) ==
    IF c \in UpperChars
    THEN LowerSeq[CHOOSE i \in 1..Len(UpperSeq) : UpperSeq[i] = c]
    ELSE c

Lower(t) == [i \in 1..Len(t) |-> LowerChar(t[i])]

\* `p in t` for strings: p occurs in t as a contiguous slice.
Contains(t, p) ==
    \E i \in 1..(Len(t) - Len(p) + 1) :
        \A k \in 1..Len(p) : t[i + k - 1] = p[k]

\* The dict major_locations (lines 290-329) in insertion order: the key and
\* its list of patterns.
major_locations ==
    << [key |-> "uk",
        patterns |-> << <<"u", "k">>,
                      <<"u", "n", "i", "t", "e", "d", " ", "k", "i", "n", "g", "d", "o", "m">>,
                      <<"b", "r", "i", "t", "a", "i", "n">>,
                      <<"g", "r", "e", "a", "t", " ", "b", "r", "i", "t", "a", "i", "n">> >>],
       [key |-> "usa",
        patterns |-> << <<"u", "s", "a">>,
                      <<"u", "n", "i", "t", "e", "d", " ", "s", "t", "a", "t", "e", "s">>,
                      <<"a", "m", "e", "r", "i", "c", "a">>,
                      <<"u", "s", " ">> >>],
       [key |-> "canada",
        patterns |-> << <<"c", "a", "n", "a", "d", "a">> >>],
       [key |-> "australia",
        patterns |-> << <<"a", "u", "s", "t", "r", "a", "l", "i", "a">> >>],
       [key |-> "france",
        patterns |-> << <<"f", "r", "a", "n", "c", "e">> >>],
       [key |-> "germany",
        patterns |-> << <<"g", "e", "r", "m", "a", "n", "y">> >>],
       [key |-> "italy",
        patterns |-> << <<"i", "t", "a", "l", "y">> >>],
       [key |-> "spain",
        patterns |-> << <<"s", "p", "a", "i", "n">> >>],
       [key |-> "japan",
        patterns |-> << <<"j", "a", "p", "a", "n">> >>],
       [key |-> "china",
        patterns |-> << <<"c", "h", "i", "n", "a">> >>],
       [key |-> "india",
        patterns |-> << <<"i", "n", "d", "i", "a">> >>],
       [key |-> "london",
        patterns |-> << <<"l", "o", "n", "d", "o", "n">> >>],
       [key |-> "new york",
        patterns |-> << <<"n", "e", "w", " ", "y", "o", "r", "k">>,
                      <<"n", "y", "c">>,
                      <<"m", "a", "n", "h", "a", "t", "t", "a", "n">> >>],
       [key |-> "paris",
        patterns |-> << <<"p", "a", "r", "i", "s">> >>],
       [key |-> "tokyo",
        patterns |-> << <<"t", "o", "k", "y", "o">> >>],
       [key |-> "sydney",
        patterns |-> << <<"s", "y", "d", "n", "e", "y">> >>],
       [key |-> "toronto",
        patterns |-> << <<"t", "o", "r", "o", "n", "t", "o">> >>],
       [key |-> "berlin",
        patterns |-> << <<"b", "e", "r", "l", "i", "n">> >>],
       [key |-> "rome",
        patterns |-> << <<"r", "o", "m", "e">> >>],
       [key |-> "madrid",
        patterns |-> << <<"m", "a", "d", "r", "i", "d">> >>],
       [key |-> "beijing",
        patterns |-> << <<"b", "e", "i", "j", "i", "n", "g">> >>],
       [key |-> "mumbai",
        patterns |-> << <<"m", "u", "m", "b", "a", "i">> >>],
       [key |-> "los angeles",
        patterns |-> << <<"l", "o", "s", " ", "a", "n", "g", "e", "l", "e", "s">>,
                      <<"l", "a", " ">>,
                      <<" ", "l", "a", ",">> >>],
       [key |-> "chicago",
        patterns |-> << <<"c", "h", "i", "c", "a", "g", "o">> >>],
       [key |-> "boston",
        patterns |-> << <<"b", "o", "s", "t", "o", "n">> >>],
       [key |-> "edinburgh",
        patterns |-> << <<"e", "d", "i", "n", "b", "u", "r", "g", "h">> >>],
       [key |-> "glasgow",
        patterns |-> << <<"g", "l", "a", "s", "g", "o", "w">> >>],
       [key |-> "manchester",
        patterns |-> << <<"m", "a", "n", "c", "h", "e", "s", "t", "e", "r">> >>],
       [key |-> "birmingham",
        patterns |-> << <<"b", "i", "r", "m", "i", "n", "g", "h", "a", "m">> >>],
       [key |-> "liverpool",
        patterns |-> << <<"l", "i", "v", "e", "r", "p", "o", "o", "l">> >>],
       [key |-> "bristol",
        patterns |-> << <<"b", "r", "i", "s", "t", "o", "l">> >>],
       [key |-> "leeds",
        patterns |-> << <<"l", "e", "e", "d", "s">> >>],
       [key |-> "cardiff",
        patterns |-> << <<"c", "a", "r", "d", "i", "f", "f">> >>],
       [key |-> "belfast",
        patterns |-> << <<"b", "e", "l", "f", "a", "s", "t">> >>],
       [key |-> "dublin",
        patterns |-> << <<"d", "u", "b", "l", "i", "n">> >>] >>

\* lines 332-336: the keys with a pattern in the lower-cased text, in dict order.
RECURSIVE TextClues(_, _)
TextClues(text_lower, n) ==
    IF n = 0 THEN <<>>
    ELSE LET location == major_locations[n]
             rest == TextClues(text_lower, n - 1)
         IN  IF \E i \in 1..Len(location.patterns) :
                    Contains(text_lower, location.patterns[i])
             THEN Append(rest, location.key)
             ELSE rest

\* line 344
EntityMatches(entity_lower, patterns) ==
    \/ \E i \in 1..Len(patterns) : entity_lower = patterns[i]
    \/ \E i \in 1..Len(patterns) : Contains(entity_lower, patterns[i])

\* lines 343-346 for one entity: the first n locations of the dict.  The keys
\* of a dict are distinct, so a key is absent from context_clues at its turn
\* exactly when it was absent at the start of the entity.
EntityLocationClues(entity_lower, clues, n) ==
    LET IsNew(location) ==
            /\ EntityMatches(entity_lower, location.patterns)
            /\ \A i \in 1..Len(clues) : clues[i] # location.key
        added == SelectSeq(SubSeq(major_locations, 1, n), IsNew)
    IN  IF added = <<>> THEN clues
        ELSE clues \o [k \in 1..Len(added) |-> added[k].key]

\* lines 339-346: the loop over the entities.
RECURSIVE EntityClues(_, _)
EntityClues(ents, clues) ==
    IF ents = <<>> THEN clues
    ELSE LET entity == ents[1] IN
         EntityClues(Tail(ents),
            IF entity.type \in {"LOCATION", "GPE", "FACILITY"}
            THEN EntityLocationClues(Lower(entity.text), clues,
                                     Len(major_locations))
            ELSE clues)

\* \w and \b of the module re, on ASCII.
WordChars == AlphaChars \cup DigitChars \cup {"_"}
IsWordAt(t, i) == i >= 1 /\ i <= Len(t) /\ t[i] \in WordChars
\* \b just before position i (1 <= i <= Len(t) + 1)
Boundary(t, i) == IsWordAt(t, i - 1) # IsWordAt(t, i)

\* The n characters from position i on exist and are all of class S.
AllIn(t, i, n, S) ==
    /\ i + n - 1 <= Len(t)
    /\ \A k \in i..(i + n - 1) : t[k] \in S

\* line 351: \b[A-Z]{1,2}\d{1,2}[A-Z]?\s*\d[A-Z]{2}\b
MatchUk1(t) ==
    \E i \in 1..Len(t) :
        /\ Boundary(t, i)
        /\ \E a \in 1..2 : AllIn(t, i, a, UpperChars) /\
           \E b \in 1..2 : AllIn(t, i + a, b, DigitChars) /\
           \E c \in 0..1 : AllIn(t, i + a + b, c, UpperChars) /\
           \E s \in 0..Len(t) : AllIn(t, i + a + b + c, s, SpaceChars) /\
              LET j == i + a + b + c + s IN
              /\ AllIn(t, j, 1, DigitChars)
              /\ AllIn(t, j + 1, 2, UpperChars)
              /\ Boundary(t, j + 3)

\* line 352: \b[A-Z]{2}\d{1,2}\s*\d[A-Z]{2}\b
MatchUk2(t) ==
    \E i \in 1..Len(t) :
        /\ Boundary(t, i)
        /\ AllIn(t, i, 2, UpperChars)
        /\ \E b \in 1..2 : AllIn(t, i + 2, b, DigitChars) /\
           \E s \in 0..Len(t) : AllIn(t, i + 2 + b, s, SpaceChars) /\
              LET j == i + 2 + b + s IN
              /\ AllIn(t, j, 1, DigitChars)
              /\ AllIn(t, j + 1, 2, UpperChars)
              /\ Boundary(t, j + 3)

\* line 355: \b\d{5}(-\d{4})?\b
MatchUsZip(t) ==
    \E i \in 1..Len(t) :
        /\ Boundary(t, i)
        /\ AllIn(t, i, 5, DigitChars)
        /\ \/ Boundary(t, i + 5)
           \/ /\ AllIn(t, i + 5, 1, {"-"})
              /\ AllIn(t, i + 6, 4, DigitChars)
              /\ Boundary(t, i + 10)

\* line 358: \b[A-Z]\d[A-Z]\s*\d[A-Z]\d\b
MatchCanada(t) ==
    \E i \in 1..Len(t) :
        /\ Boundary(t, i)
        /\ AllIn(t, i, 1, UpperChars)
        /\ AllIn(t, i + 1, 1, DigitChars)
        /\ AllIn(t, i + 2, 1, UpperChars)
        /\ \E s \in 0..Len(t) : AllIn(t, i + 3, s, SpaceChars) /\
              LET j == i + 3 + s IN
              /\ AllIn(t, j, 1, DigitChars)
              /\ AllIn(t, j + 1, 1, UpperChars)
              /\ AllIn(t, j + 2, 1, DigitChars)
              /\ Boundary(t, j + 3)

\* lines 365-366
AppendIfAbsent(clues, country) ==
    IF \E i \in 1..Len(clues) : clues[i] = country THEN clues
    ELSE Append(clues, country)

\* lines 349-367: the dict postal_patterns, in insertion order.
PostalClues(text, clues) ==
    LET c1 == IF MatchUk1(text) \/ MatchUk2(text)
              THEN AppendIfAbsent(clues, "uk") ELSE clues
        c2 == IF MatchUsZip(text) THEN AppendIfAbsent(c1, "usa") ELSE c1
    IN  IF MatchCanada(text) THEN AppendIfAbsent(c2, "canada") ELSE c2

\* lines 286-367: context_clues before it is prioritised.
DiscoverClues(text, ents) ==
    PostalClues(text,
        EntityClues(ents, TextClues(Lower(text), Len(major_locations))))

\* Mutant of priority_order: the countries come before the cities.
priority_orderCountriesFirst ==
    <<"uk", "usa", "canada", "australia", "france", "germany",
      "london", "new york", "paris", "tokyo", "sydney">>

\* line 370
priority_order ==
    <<"london", "new york", "paris", "tokyo", "sydney", "uk", "usa", "canada",
      "australia", "france", "germany">>

InSeq(x, s) == \E i \in 1..Len(s) : s[i] = x

\* lines 378-380: the clues not yet in prioritized_context are appended.
RECURSIVE AddRemaining(_, _)
AddRemaining(prioritized_context, clues) ==
    IF clues = <<>> THEN prioritized_context
    ELSE AddRemaining(
            IF InSeq(clues[1], prioritized_context) THEN prioritized_context
            ELSE Append(prioritized_context, clues[1]),
            Tail(clues))

\* Mutant of PrioritizeContext: every clue is appended again after the
\* priority pass, without the membership test of line 379.
PrioritizeContextNoTest(clues) ==
    LET IsDetected(priority_location) == InSeq(priority_location, clues)
        all == SelectSeq(priority_order, IsDetected) \o clues
    IN  SubSeq(all, 1, IF Len(all) < 3 THEN Len(all) ELSE 3)

\* lines 369-382: priority pass, remaining clues, [:3].
PrioritizeContext(clues) ==
    LET IsDetected(priority_location) == InSeq(priority_location, clues)
        all == AddRemaining(SelectSeq(priority_order, IsDetected), clues)
    IN  SubSeq(all, 1, IF Len(all) < 3 THEN Len(all) ELSE 3)

\* _detect_geographical_context(text, entities)
DetectGeographicalContext(text, ents) ==
    PrioritizeContext(DiscoverClues(text, ents))

(***************************************************************************)
(* SpecGeo: one call of _detect_geographical_context.                      *)
(***************************************************************************)
MaxWords == 3      \* most words of a text
MaxGeoEnts == 1    \* most entities passed with it

\* The words of the texts: cities and a country of the priority list, a city
\* outside it, a US ZIP code and a UK postcode.
GeoWords ==
    { <<"P", "a", "r", "i", "s">>, <<"U", "K">>, <<"L", "o", "n", "d", "o", "n">>,
      <<"T", "o", "k", "y", "o">>, <<"R", "o", "m", "e">>,
      <<"9", "0", "2", "1", "0">>, <<"S", "W", "1", "A", " ", "1", "A", "A">> }

\* " ".join(words)
RECURSIVE JoinWords(_)
JoinWords(words) ==
    IF words = <<>> THEN <<>>
    ELSE IF Len(words) = 1 THEN words[1]
    ELSE words[1] \o <<" ">> \o JoinWords(Tail(words))

GeoTexts == {JoinWords(ws) : ws \in SeqsUpTo(GeoWords, MaxWords)}

\* Entities handed over with the text: places, and entities of types the
\* detector does not read.
GeoEntities ==
    { [text |-> <<"S", "y", "d", "n", "e", "y">>, type |-> "LOCATION",
       start |-> 0, end |-> 6],
      [text |-> <<"G", "r", "e", "a", "t", " ", "B", "r", "i", "t", "a", "i", "n">>,
       type |-> "LOCATION", start |-> 0, end |-> 13],
      [text |-> <<"B", "e", "r", "l", "i", "n">>, type |-> "ORGANIZATION",
       start |-> 0, end |-> 6] }

InitGeo ==
    /\ call \in [fn : {"_detect_geographical_context"}, text : GeoTexts,
                 entities : SeqsUpTo(GeoEntities, MaxGeoEnts)]
    /\ ret = "none"
    /\ context_clues = <<>>
    /\ pc = "call"
    /\ ResolveIdle
    /\ ExtractIdle
    /\ ProcessIdle
    /\ StepIdle

\* lines 286-367
DetectClues ==
    /\ pc = "call"
    /\ call.fn = "_detect_geographical_context"
    /\ context_clues' = DiscoverClues(call.text, call.entities)
    /\ pc' = "prioritize"
    /\ UNCHANGED <<call, ret, candidates, entities, filtered, idx, extractVars,
                   procVars, stepVars>>

\* lines 369-382
Prioritize ==
    /\ pc = "prioritize"
    /\ ret' = PrioritizeContext(context_clues)
    /\ pc' = "done"
    /\ UNCHANGED <<call, context_clues, candidates, entities, filtered, idx,
                   extractVars, procVars, stepVars>>

NextGeo == DetectClues \/ Prioritize

SpecGeo == InitGeo /\ [][NextGeo]_vars

(***************************************************************************)
(* Properties of _detect_geographical_context.                             *)
(***************************************************************************)
\* The fixed priority list, as the claim gives it.
C8_Priority ==
    <<"london", "new york", "paris", "tokyo", "sydney", "uk", "usa", "canada",
      "australia", "france", "germany">>

C8_IndexIn(x, s) == CHOOSE i \in 1..Len(s) : s[i] = x

\* Position of a detected key in the full ordering: the keys of the priority
\* list by their place in it, then the other keys by their place in the
\* discovery list.
C8_Rank(key, discovered) ==
    IF \E i \in 1..Len(C8_Priority) : C8_Priority[i] = key
    THEN C8_IndexIn(key, C8_Priority)
    ELSE Len(C8_Priority) + C8_IndexIn(key, discovered)

\* C8: the returned list is duplicate-free, has at most 3 keys, and holds the
\* first keys of: the detected keys of the priority list in priority order,
\* followed by the other detected keys in discovery order.
C8_PrioritizedTop3 ==
    (pc = "done" /\ call.fn = "_detect_geographical_context") =>
        LET detected == Range(context_clues) IN
        /\ Len(ret) <= 3
        /\ \A i, j \in 1..Len(ret) : i # j => ret[i] # ret[j]
        /\ Range(ret) \subseteq detected
        /\ Len(ret) = IF Cardinality(detected) < 3 THEN Cardinality(detected) ELSE 3
        /\ \A i, j \in 1..Len(ret) :
            i < j => C8_Rank(ret[i], context_clues) < C8_Rank(ret[j], context_clues)
        /\ \A k \in detected \ Range(ret) : \A i \in 1..Len(ret) :
            C8_Rank(ret[i], context_clues) < C8_Rank(k, context_clues)

\* C8 witness: more than three keys were detected, one of them outside the
\* priority list and discovered before a priority key, and three were returned.
C8_Witness ==
    /\ pc = "done"
    /\ call.fn = "_detect_geographical_context"
    /\ Len(context_clues) > 3
    /\ \E i, j \in 1..Len(context_clues) :
        /\ i < j
        /\ context_clues[i] = "rome"
        /\ context_clues[j] = "usa"
    /\ Len(ret) = 3

C9_Mentions(text, word) == Contains(Lower(text), word)
C9_MentionsParisAndUk ==
    /\ pc = "done"
    /\ call.fn = "_detect_geographical_context"
    /\ C9_Mentions(call.text, <<"p", "a", "r", "i", "s">>)
    /\ C9_Mentions(call.text, <<"u", "k">>)

\* C9 (as claimed): for every text that mentions both Paris and UK, whatever
\* else it mentions, the returned list contains 'paris' and 'uk', 'paris'
\* earlier than 'uk'.
C9_ParisBeforeUk ==
    C9_MentionsParisAndUk =>
        \E i, j \in 1..Len(ret) : i < j /\ ret[i] = "paris" /\ ret[j] = "uk"

\* C9 (amended): for every text that mentions both Paris and UK, the returned
\* list contains 'paris'; it contains 'uk' exactly when at most one of london,
\* new york, tokyo, sydney is detected as well, and then 'paris' comes earlier
\* than 'uk'.
C9_ParisBeforeUkUnlessTruncated ==
    C9_MentionsParisAndUk =>
        LET cities == Range(context_clues)
                        \cap {"london", "new york", "tokyo", "sydney"}
        IN  /\ \E i \in 1..Len(ret) : ret[i] = "paris"
            /\ (\E j \in 1..Len(ret) : ret[j] = "uk") <=> Cardinality(cities) <= 1
            /\ \A i, j \in 1..Len(ret) :
                (ret[i] = "paris" /\ ret[j] = "uk") => i < j

\* C9 witness: Paris, UK and one more city are mentioned; 'paris' is returned
\* before 'uk'.
C9_Witness ==
    /\ C9_MentionsParisAndUk
    /\ "london" \in Range(context_clues)
    /\ ret = <<"london", "paris", "uk">>


(***************************************************************************)
(* process_text, lines 987-1088, with the functions it calls: the cached   *)
(* extraction and linking (lines 837-864), get_coordinates and its         *)
(* strategies (lines 384-619), link_to_openstreetmap (lines 769-810) and   *)
(* create_highlighted_html (lines 1090-1175).                              *)
(***************************************************************************)
MaxRequests == 2   \* most calls of process_text in one session

otherVars == <<candidates, entities, filtered, idx, extractVars, pureVars, geoVars>>

\* dict.update: the entity e with the keys of r set to the values of r.
Update(e, r) ==
    [k \in DOMAIN e \cup DOMAIN r |-> IF k \in DOMAIN r THEN r[k] ELSE e[k]]

\* All sequences that take their i-th element from choices[i].
RECURSIVE Product(_)
Product(choices) ==
    IF choices = <<>> THEN {<<>>}
    ELSE {<<c>> \o rest : c \in choices[1], rest \in Product(Tail(choices))}

\* s[:n]
Prefix(s, n) == SubSeq(s, 1, IF Len(s) < n THEN Len(s) ELSE n)

\* hashlib.md5(text.encode()).hexdigest(), line 1001: a digest that is taken
\* to be free of collisions; it is never the empty string.
Md5(t) == <<"md5", t>>

\* json.dumps(entities, default=str) and json.loads, lines 1021-1037 and
\* 843-864: every value of an entity at these points is a string or an
\* integer, which the serialisation returns unchanged; the serialised form is
\* a value of its own kind, the key of the cache.
JsonDumps(ents) == <<"json", ents>>
JsonLoads(j) == j[2]

\* st.cache_data, lines 837-864: the recorded calls.
CacheHit(fn, arg) == \E c \in cache : c.fn = fn /\ c.arg = arg
CacheResult(fn, arg) == (CHOOSE c \in cache : c.fn = fn /\ c.arg = arg).result
CacheStore(fn, arg, result) == cache \cup {[fn |-> fn, arg |-> arg, result |-> result]}

\* The texts submitted, and the titles.
TextAcmeUk == <<"A", "c", "m", "e", " ", "U", "K">>
TextParis == <<"P", "a", "r", "i", "s">>
TextBob == <<"B", "o", "b">>
TextElmRoad == <<"1", "2", " ", "E", "l", "m", " ", "R", "o", "a", "d">>
TextBlank == <<" ", " ">>
TextObama ==
    <<"B", "a", "r", "a", "c", "k", " ", "O", "b", "a", "m", "a", " ",
      "v", "i", "s", "i", "t", "e", "d", " ", "L", "o", "n", "d", "o", "n", " ",
      "i", "n", " ", "2", "0", "2", "1", ".">>
ProcessTexts == {TextAcmeUk, TextParis, TextBob, TextElmRoad, TextBlank}
Titles == {"text_analysis", "report"}

\* What the tagger returns for each of these texts (the tagger is a function
\* of the text).
TaggerOutput(t) ==
    IF t = TextAcmeUk
    THEN << [text |-> <<"A", "c", "m", "e">>, label |-> "ORG", start |-> 0, end |-> 4] >>
    ELSE IF t = TextParis
    THEN << [text |-> TextParis, label |-> "LOC", start |-> 0, end |-> 5] >>
    ELSE IF t = TextBob
    THEN << [text |-> TextBob, label |-> "PER", start |-> 0, end |-> 3] >>
    ELSE IF t = TextObama
    THEN << [text |-> SubSeq(TextObama, 1, 12), label |-> "PER", start |-> 0, end |-> 12],
            [text |-> SubSeq(TextObama, 22, 27), label |-> "LOC", start |-> 21, end |-> 27],
            [text |-> SubSeq(TextObama, 32, 35), label |-> "DATE", start |-> 31, end |-> 35] >>
    ELSE <<>>

\* _extract_addresses, lines 641-661, on these texts: the one address.
ExtractAddresses(t) ==
    IF t = TextElmRoad
    THEN << [text |-> TextElmRoad, type |-> "ADDRESS", start |-> 0, end |-> 11] >>
    ELSE <<>>

\* _remove_overlapping_entities, lines 663-685, as one call.
RECURSIVE ResolveAll(_, _)
ResolveAll(flt, ents) ==
    IF ents = <<>> THEN flt
    ELSE ResolveAll(ResolveOne(flt, ents[1]), Tail(ents))

RemoveOverlappingEntities(ents) == ResolveAll(<<>>, SortByStart(ents))

\* extract_entities, lines 163-204.
ExtractEntities(t) ==
    RemoveOverlappingEntities(TaggerEntities(TaggerOutput(t)) \o ExtractAddresses(t))

\* line 244 and line 726: the entities a linking loop passes over.
BritannicaSkipsWikidataOnly(e) == Truthy(e, "wikidata_url")
BritannicaSkips(e) == Truthy(e, "wikidata_url") \/ Truthy(e, "wikipedia_url")
WikipediaSkipsNone(e) == FALSE
WikipediaSkips(e) == Truthy(e, "wikidata_url")

\* lines 706-709: what a search result stores in the entity; the description
\* may be empty.
WikidataFound(e) ==
    {Update(e, [wikidata_url |-> "http://www.wikidata.org/entity/Q1",
                wikidata_description |-> d]) : d \in {"", "description"}}

\* lines 744-757: the link and the title, and the description if the result
\* has a snippet.
WikipediaFound(e) ==
    {Update(e, [wikipedia_url |-> "https://en.wikipedia.org/wiki/Title",
                wikipedia_title |-> "Title"]),
     Update(e, [wikipedia_url |-> "https://en.wikipedia.org/wiki/Title",
                wikipedia_title |-> "Title",
                wikipedia_description |-> "snippet"])}

\* lines 260-266
BritannicaFound(e) ==
    {Update(e, [britannica_url |-> "https://www.britannica.com/topic/title",
                britannica_title |-> "Title"])}

\* link_to_wikidata, lines 692-714, for one entity: a search result sets the
\* link and the description; no result, a status other than 200 or an
\* exception leave the entity as it is.
WikidataOutcomes(e) == {e} \cup WikidataFound(e)

\* link_to_wikipedia, lines 724-765, for one entity.
WikipediaOutcomes(e) ==
    IF WikipediaSkips(e) THEN {e} ELSE {e} \cup WikipediaFound(e)

\* link_to_britannica, lines 242-269, for one entity.
BritannicaOutcomes(e) ==
    IF BritannicaSkips(e) THEN {e} ELSE {e} \cup BritannicaFound(e)

\* link_to_openstreetmap, lines 774-808, for one entity: a result sets the
\* link and the coordinates; a result whose coordinates are not numbers sets
\* the link only, or the link and the latitude (float() raises after they
\* are stored).
OpenStreetMapOutcomes(e) ==
    IF e.type # "ADDRESS" THEN {e}
    ELSE {e,
          Update(e, [openstreetmap_url |-> "https://www.openstreetmap.org/?mlat=51&mlon=0&zoom=18",
                     openstreetmap_display_name |-> "display name"]),
          Update(e, [openstreetmap_url |-> "https://www.openstreetmap.org/?mlat=51&mlon=0&zoom=18",
                     openstreetmap_display_name |-> "display name",
                     latitude |-> 51]),
          Update(e, [openstreetmap_url |-> "https://www.openstreetmap.org/?mlat=51&mlon=0&zoom=18",
                     openstreetmap_display_name |-> "display name",
                     latitude |-> 51, longitude |-> 0,
                     location_name |-> "display name"])}

LinkToWikidata(ents) == Product([i \in 1..Len(ents) |-> WikidataOutcomes(ents[i])])
LinkToWikipedia(ents) == Product([i \in 1..Len(ents) |-> WikipediaOutcomes(ents[i])])
LinkToBritannica(ents) == Product([i \in 1..Len(ents) |-> BritannicaOutcomes(ents[i])])
LinkToOpenStreetMap(ents) == Product([i \in 1..Len(ents) |-> OpenStreetMapOutcomes(ents[i])])

\* lines 435-447
context_mapping ==
    <<[key |-> "uk",
       variants |-> <<<<"U", "K">>,
                      <<"U", "n", "i", "t", "e", "d", " ", "K", "i", "n", "g", "d", "o", "m">>,
                      <<"E", "n", "g", "l", "a", "n", "d">>,
                      <<"B", "r", "i", "t", "a", "i", "n">>>>],
      [key |-> "usa",
       variants |-> <<<<"U", "S", "A">>,
                      <<"U", "n", "i", "t", "e", "d", " ", "S", "t", "a", "t", "e", "s">>,
                      <<"U", "S">>>>],
      [key |-> "canada",
       variants |-> <<<<"C", "a", "n", "a", "d", "a">>>>],
      [key |-> "australia",
       variants |-> <<<<"A", "u", "s", "t", "r", "a", "l", "i", "a">>>>],
      [key |-> "france",
       variants |-> <<<<"F", "r", "a", "n", "c", "e">>>>],
      [key |-> "germany",
       variants |-> <<<<"G", "e", "r", "m", "a", "n", "y">>>>],
      [key |-> "london",
       variants |-> <<<<"L", "o", "n", "d", "o", "n", ",", " ", "U", "K">>,
                      <<"L", "o", "n", "d", "o", "n", ",", " ", "E", "n", "g", "l", "a", "n", "d">>>>],
      [key |-> "new york",
       variants |-> <<<<"N", "e", "w", " ", "Y", "o", "r", "k", ",", " ", "U", "S", "A">>,
                      <<"N", "e", "w", " ", "Y", "o", "r", "k", ",", " ", "N", "Y">>>>],
      [key |-> "paris",
       variants |-> <<<<"P", "a", "r", "i", "s", ",", " ", "F", "r", "a", "n", "c", "e">>>>],
      [key |-> "tokyo",
       variants |-> <<<<"T", "o", "k", "y", "o", ",", " ", "J", "a", "p", "a", "n">>>>],
      [key |-> "sydney",
       variants |-> <<<<"S", "y", "d", "n", "e", "y", ",", " ", "A", "u", "s", "t", "r", "a", "l", "i", "a">>>>]>>

\* The key of a gazetteer entry as characters: every key of major_locations is
\* the first of its own patterns.
KeyCharsOf(key) ==
    major_locations[CHOOSE i \in 1..Len(major_locations) :
                        major_locations[i].key = key].patterns[1]

\* context_mapping.get(context, [context]), line 449
ContextVariants(context) ==
    IF \E i \in 1..Len(context_mapping) : context_mapping[i].key = context
    THEN context_mapping[CHOOSE i \in 1..Len(context_mapping) :
                             context_mapping[i].key = context].variants
    ELSE <<KeyCharsOf(context)>>

\* lines 450-451: f"{entity['text']}, {variant}" for each variant
RECURSIVE WithVariants(_, _)
WithVariants(entity_text, variants) ==
    IF variants = <<>> THEN <<>>
    ELSE <<entity_text \o <<",", " ">> \o variants[1]>>
         \o WithVariants(entity_text, Tail(variants))

\* lines 434-451: the loop over context_clues
RECURSIVE ContextTerms(_, _)
ContextTerms(entity_text, clues) ==
    IF clues = <<>> THEN <<>>
    ELSE WithVariants(entity_text, ContextVariants(clues[1]))
         \o ContextTerms(entity_text, Tail(clues))

\* list(dict.fromkeys(s)), line 454
RECURSIVE Dedupe(_)
Dedupe(s) ==
    IF s = <<>> THEN <<>>
    ELSE LET front == Dedupe(SubSeq(s, 1, Len(s) - 1))
         IN  IF InSeq(s[Len(s)], front) THEN front ELSE Append(front, s[Len(s)])

\* lines 431-454
SearchVariations(entity_text, clues) ==
    Dedupe(<<entity_text>> \o ContextTerms(entity_text, clues))

\* Mutant of AggressiveVariations: the entity text alone is searched for.
AggressiveVariationsBare(entity_text) == <<entity_text>>

\* lines 582-590
AggressiveVariations(entity_text) ==
    << entity_text,
       entity_text \o <<",", " ", "U", "K">>,
       entity_text \o <<",", " ", "E", "n", "g", "l", "a", "n", "d">>,
       entity_text \o <<",", " ", "S", "c", "o", "t", "l", "a", "n", "d">>,
       entity_text \o <<",", " ", "W", "a", "l", "e", "s">>,
       entity_text \o <<" ", "c", "i", "t", "y">>,
       entity_text \o <<" ", "t", "o", "w", "n">> >>

\* The four or five keys a successful lookup stores.
Located(e, source) ==
    Update(e, [latitude |-> 51, longitude |-> 0, location_name |-> "address",
               geocoding_source |-> source])
LocatedBy(e, source, term) ==
    Update(Located(e, source), [search_term_used |-> term])

\* A lookup whose answer has a latitude but no usable longitude: the latitude
\* is stored before float() or the key lookup raises (lines 494-495, 606-607).
HalfLocated(e) == Update(e, [latitude |-> 51])

\* The result of one strategy: the entity as the strategy leaves it, whether
\* it returned True, and whether an exception left it.
Outcome(e, found, raised) == [entity |-> e, found |-> found, raised |-> raised]

\* _try_contextual_geocoding, lines 422-509.  geocoder.geocode may raise an
\* exception other than GeocoderTimedOut and GeocoderServiceError, which
\* nothing in the function catches.
TryContextualGeocoding(e, clues) ==
    IF clues = <<>> THEN {Outcome(e, FALSE, FALSE)}
    ELSE LET search_variations == SearchVariations(e.text, clues) IN
         {Outcome(LocatedBy(e, "geopy_contextual", t), TRUE, FALSE) :
              t \in Range(Prefix(search_variations, 5))}
         \cup {Outcome(e, FALSE, TRUE)}
         \cup {Outcome(LocatedBy(e, "openstreetmap_contextual", t), TRUE, FALSE) :
                  t \in Range(Prefix(search_variations, 3))}
         \cup {Outcome(HalfLocated(e), FALSE, FALSE), Outcome(e, FALSE, FALSE)}

\* _try_python_geocoding, lines 511-543: every exception is caught.
TryPythonGeocoding(e) ==
    {Outcome(Located(e, "geopy_nominatim"), TRUE, FALSE),
     Outcome(Located(e, "geopy_arcgis"), TRUE, FALSE),
     Outcome(e, FALSE, FALSE)}

\* _try_openstreetmap, lines 545-574: the name `requests` is bound neither in
\* the function nor in the module, so line 557 raises NameError, which line
\* 568 catches; the function returns False.
TryOpenStreetMap(e) == {Outcome(e, FALSE, FALSE)}

\* _try_aggressive_geocoding, lines 576-619.
TryAggressiveGeocoding(e) ==
    {Outcome(LocatedBy(e, "openstreetmap_aggressive", t), TRUE, FALSE) :
         t \in Range(AggressiveVariations(e.text))}
    \cup {Outcome(HalfLocated(e), FALSE, FALSE), Outcome(e, FALSE, FALSE)}

\* `if self._try_...(entity): continue`, lines 406-418: the next strategy runs
\* only on the entities for which the earlier ones returned False.
Settled(outcomes) == {o \in outcomes : o.found \/ o.raised}
NotFound(outcomes) == {o.entity : o \in {x \in outcomes : ~x.found /\ ~x.raised}}

\* line 397
place_types == {"LOCATION", "GPE", "FACILITY", "ORGANIZATION", "ADDRESS"}

\* get_coordinates, lines 400-418: the body of the loop for one entity.
GeocodeEntity(e, clues) ==
    IF e.type \notin place_types THEN {Outcome(e, FALSE, FALSE)}
    ELSE IF HasValue(e, "latitude") THEN {Outcome(e, FALSE, FALSE)}
    ELSE LET contextual == TryContextualGeocoding(e, clues)
             python == UNION {TryPythonGeocoding(x) : x \in NotFound(contextual)}
             osm == UNION {TryOpenStreetMap(x) : x \in NotFound(python)}
             aggressive == UNION {TryAggressiveGeocoding(x) : x \in NotFound(osm)}
         IN  Settled(contextual) \cup Settled(python) \cup Settled(osm)
             \cup aggressive

\* get_coordinates, lines 399-420: the loop.  The entities are changed in
\* place; an exception ends the loop and leaves the later entities untouched.
RECURSIVE GeocodeEntities(_, _)
GeocodeEntities(ents, clues) ==
    IF ents = <<>> THEN {[entities |-> <<>>, raised |-> FALSE]}
    ELSE UNION {
        IF o.raised
        THEN {[entities |-> <<o.entity>> \o Tail(ents), raised |-> TRUE]}
        ELSE {[entities |-> <<o.entity>> \o r.entities, raised |-> r.raised] :
                  r \in GeocodeEntities(Tail(ents), clues)}
        : o \in GeocodeEntity(ents[1], clues)}

\* line 1043
IsPlaceEntity(e) == e.type \in {"LOCATION", "GPE", "FACILITY", "ORGANIZATION"}
PlaceEntities(ents) == SelectSeq(ents, IsPlaceEntity)

\* place_entities holds the dicts of `entities` themselves, so what
\* get_coordinates does to them shows in `entities`: the k-th place entity of
\* ents is geocoded[k].
RECURSIVE InPlace(_, _)
InPlace(ents, geocoded) ==
    IF ents = <<>> THEN <<>>
    ELSE IF IsPlaceEntity(ents[1])
         THEN <<geocoded[1]>> \o InPlace(Tail(ents), Tail(geocoded))
         ELSE <<ents[1]>> \o InPlace(Tail(ents), geocoded)

\* Mutant of SameEntity: every entity is taken for the geocoded one.
SameEntityAlways(entity, geocoded_entity) == TRUE

\* lines 1054-1056
SameEntity(entity, geocoded_entity) ==
    /\ entity.text = geocoded_entity.text
    /\ entity.type = geocoded_entity.type
    /\ entity.start = geocoded_entity.start

\* lines 1053-1058: the first entity with the text, type and start of the
\* geocoded one is replaced by it.
RECURSIVE ReplaceFirstMatch(_, _)
ReplaceFirstMatch(ents, geocoded_entity) ==
    IF ents = <<>> THEN <<>>
    ELSE IF SameEntity(ents[1], geocoded_entity)
         THEN <<geocoded_entity>> \o Tail(ents)
         ELSE <<ents[1]>> \o ReplaceFirstMatch(Tail(ents), geocoded_entity)

\* lines 1051-1058
RECURSIVE MergeGeocoded(_, _)
MergeGeocoded(ents, geocoded) ==
    IF geocoded = <<>> THEN ents
    ELSE MergeGeocoded(ReplaceFirstMatch(ents, geocoded[1]), Tail(geocoded))

\* html.escape(text)
EscapeChar(c) ==
    IF c = "&" THEN <<"&", "a", "m", "p", ";">>
    ELSE IF c = "<" THEN <<"&", "l", "t", ";">>
    ELSE IF c = ">" THEN <<"&", "g", "t", ";">>
    ELSE IF c = "\"" THEN <<"&", "q", "u", "o", "t", ";">>
    ELSE IF c = "'" THEN <<"&", "#", "x", "2", "7", ";">>
    ELSE <<c>>
RECURSIVE Escape(_)
Escape(t) == IF t = <<>> THEN <<>> ELSE EscapeChar(t[1]) \o Escape(Tail(t))

\* lines 1110-1119
colors ==
    { <<"PERSON", "#BF7B69">>,
      <<"ORGANIZATION", "#9fd2cd">>,
      <<"LOCATION", "#EFCA89">>,
      <<"MISC", "#C4C3A2">>,
      <<"GPE", "#C4C3A2">>,
      <<"FACILITY", "#C3B5AC">>,
      <<"GSP", "#C4A998">>,
      <<"ADDRESS", "#CCBEAA">> }
Color(type) ==
    IF \E c \in colors : c[1] = type
    THEN (CHOOSE c \in colors : c[1] = type)[2]
    ELSE "#E7E2D2"

\* lines 1124-1132: which entities are highlighted
HasLinks(e) ==
    \/ Truthy(e, "britannica_url")
    \/ Truthy(e, "wikidata_url")
    \/ Truthy(e, "wikipedia_url")
    \/ Truthy(e, "openstreetmap_url")
IsHighlighted(e) == HasLinks(e) \/ HasValue(e, "latitude")

\* lines 1141-1147: the parts of the tooltip
Tooltip(e) ==
    << <<"Type", e.type>> >>
    \o (IF Truthy(e, "wikidata_description")
        THEN << <<"Description", e.wikidata_description>> >> ELSE <<>>)
    \o (IF Truthy(e, "location_name")
        THEN << <<"Location", e.location_name>> >> ELSE <<>>)

\* html.escape(url), lines 1151-1160, on the URLs of the model: only the one
\* of OpenStreetMap has characters that are escaped.
EscapeUrl(url) ==
    IF url = "https://www.openstreetmap.org/?mlat=51&mlon=0&zoom=18"
    THEN "https://www.openstreetmap.org/?mlat=51&amp;mlon=0&amp;zoom=18"
    ELSE url

\* Mutant of Href: Wikidata comes before Wikipedia.
HrefWikidataFirst(e) ==
    IF Truthy(e, "wikidata_url") THEN EscapeUrl(e.wikidata_url)
    ELSE IF Truthy(e, "wikipedia_url") THEN EscapeUrl(e.wikipedia_url)
    ELSE IF Truthy(e, "britannica_url") THEN EscapeUrl(e.britannica_url)
    ELSE EscapeUrl(e.openstreetmap_url)

\* lines 1149-1164: the link target by priority; a span without a link for an
\* entity that has coordinates only.
Href(e) ==
    IF Truthy(e, "wikipedia_url") THEN EscapeUrl(e.wikipedia_url)
    ELSE IF Truthy(e, "wikidata_url") THEN EscapeUrl(e.wikidata_url)
    ELSE IF Truthy(e, "britannica_url") THEN EscapeUrl(e.britannica_url)
    ELSE EscapeUrl(e.openstreetmap_url)

\* lines 1149-1164: the replacement for one entity
Replacement(t, e) ==
    IF HasLinks(e)
    THEN [tag |-> "a", href |-> Href(e), color |-> Color(e.type),
          title |-> Tooltip(e), body |-> Escape(SubSeq(t, e.start + 1, e.end))]
    ELSE [tag |-> "span", color |-> Color(e.type),
          title |-> Tooltip(e), body |-> Escape(SubSeq(t, e.start + 1, e.end))]

PlainText(t) == IF t = <<>> THEN <<>> ELSE << [tag |-> "text", body |-> Escape(t)] >>

\* lines 1121-1173: the escaped text with the highlighted entities replaced,
\* as the sequence of its pieces from left to right.  The entities do not
\* overlap, so replacing from the end to the start gives the same result as
\* walking the entities by ascending start.
RECURSIVE Highlight(_, _, _)
Highlight(t, ents, from) ==
    IF ents = <<>> THEN PlainText(SubSeq(t, from + 1, Len(t)))
    ELSE IF ~IsHighlighted(ents[1]) THEN Highlight(t, Tail(ents), from)
    ELSE PlainText(SubSeq(t, from + 1, ents[1].start))
         \o <<Replacement(t, ents[1])>>
         \o Highlight(t, Tail(ents), ents[1].end)

\* create_highlighted_html, lines 1090-1175
CreateHighlightedHtml(t, ents) == Highlight(t, SortByStart(ents), 0)

(***************************************************************************)
(* SpecProcess: a session in which process_text is called up to            *)
(* MaxRequests times.                                                      *)
(***************************************************************************)
InitProcess ==
    /\ pc = "idle"
    /\ ResolveIdle
    /\ ExtractIdle
    /\ HelperIdle
    /\ ProcessIdle
    /\ StepIdle

\* Mutant of IsBlank: only the empty text is refused.
IsBlankOnlyEmpty(t) == t = <<>>

\* line 995: not text.strip()
IsBlank(t) == Strip(t) = <<>>

\* line 1003: text_hash == st.session_state.last_processed_hash
SameAsLast(t, s) == Md5(t) = s.last_processed_hash

\* Mutant of SessionAfterError: the text counts as processed although the
\* request failed.
SessionAfterErrorMarksProcessed(s, t) ==
    [s EXCEPT !.processed_text = t, !.last_processed_hash = Md5(t)]

\* lines 1086-1088: the handler reports the exception and stores nothing; the
\* session state of a request for the text t that failed.
SessionAfterError(s, t) == s

\* Mutant of StoredSession: the hash of the text is not stored.
StoredSessionStaleHash(s, t, ents, ti) ==
    [entities |-> ents,
     processed_text |-> t,
     html_content |-> CreateHighlightedHtml(t, ents),
     analysis_title |-> ti,
     last_processed_hash |-> s.last_processed_hash]

\* lines 1071-1078: the five assignments to st.session_state.
StoredSession(s, t, ents, ti) ==
    [entities |-> ents,
     processed_text |-> t,
     html_content |-> CreateHighlightedHtml(t, ents),
     analysis_title |-> ti,
     last_processed_hash |-> Md5(t)]

\* lines 995-997: a text of white space only is refused.
RejectBlank ==
    \E t \in ProcessTexts, ti \in Titles :
        /\ pc = "idle"
        /\ nreq < MaxRequests
        /\ IsBlank(t)
        /\ input_text' = t
        /\ title' = ti
        /\ nreq' = nreq + 1
        /\ UNCHANGED <<pc, session, pt_entities, geo_context, cache, otherVars, stepVars>>

\* lines 999-1005: the text processed last is not processed again.
AlreadyProcessed ==
    \E t \in ProcessTexts, ti \in Titles :
        /\ pc = "idle"
        /\ nreq < MaxRequests
        /\ ~IsBlank(t)
        /\ SameAsLast(t, session)
        /\ input_text' = t
        /\ title' = ti
        /\ nreq' = nreq + 1
        /\ UNCHANGED <<pc, session, pt_entities, geo_context, cache, otherVars, stepVars>>

\* lines 1013-1016: cached_extract_entities returns the entities, from the
\* cache if the text was extracted before.
ExtractStep ==
    \E t \in ProcessTexts, ti \in Titles :
        /\ pc = "idle"
        /\ nreq < MaxRequests
        /\ ~IsBlank(t)
        /\ ~SameAsLast(t, session)
        /\ input_text' = t
        /\ title' = ti
        /\ nreq' = nreq + 1
        /\ IF CacheHit("extract_entities", t)
           THEN /\ pt_entities' = CacheResult("extract_entities", t)
                /\ UNCHANGED cache
           ELSE /\ pt_entities' = ExtractEntities(t)
                /\ cache' = CacheStore("extract_entities", t, ExtractEntities(t))
        /\ geo_context' = <<>>
        /\ pc' = "link_wikidata"
        /\ UNCHANGED <<session, otherVars, stepVars>>

\* lines 1016 and 1086-1088: the extraction raises (the tagger fails); the
\* request ends with an error message and the session state as it was.
ExtractFails ==
    \E t \in ProcessTexts, ti \in Titles :
        /\ pc = "idle"
        /\ nreq < MaxRequests
        /\ ~IsBlank(t)
        /\ ~SameAsLast(t, session)
        /\ ~CacheHit("extract_entities", t)
        /\ input_text' = t
        /\ title' = ti
        /\ nreq' = nreq + 1
        /\ pt_entities' = <<>>
        /\ geo_context' = <<>>
        /\ session' = SessionAfterError(session, t)
        /\ UNCHANGED <<pc, cache, otherVars, stepVars>>

\* lines 1018-1023 and 843-848
WikidataStep ==
    /\ pc = "link_wikidata"
    /\ LET entities_json == JsonDumps(pt_entities) IN
       IF CacheHit("link_to_wikidata", entities_json)
       THEN /\ pt_entities' = JsonLoads(CacheResult("link_to_wikidata", entities_json))
            /\ UNCHANGED cache
       ELSE \E linked \in LinkToWikidata(JsonLoads(entities_json)) :
            /\ pt_entities' = JsonLoads(JsonDumps(linked))
            /\ cache' = CacheStore("link_to_wikidata", entities_json, JsonDumps(linked))
    /\ pc' = "link_wikipedia"
    /\ UNCHANGED <<session, input_text, title, geo_context, nreq, otherVars, stepVars>>

\* lines 1025-1030 and 858-864
WikipediaStep ==
    /\ pc = "link_wikipedia"
    /\ LET entities_json == JsonDumps(pt_entities) IN
       IF CacheHit("link_to_wikipedia", entities_json)
       THEN /\ pt_entities' = JsonLoads(CacheResult("link_to_wikipedia", entities_json))
            /\ UNCHANGED cache
       ELSE \E linked \in LinkToWikipedia(JsonLoads(entities_json)) :
            /\ pt_entities' = JsonLoads(JsonDumps(linked))
            /\ cache' = CacheStore("link_to_wikipedia", entities_json, JsonDumps(linked))
    /\ pc' = "link_britannica"
    /\ UNCHANGED <<session, input_text, title, geo_context, nreq, otherVars, stepVars>>

\* lines 1032-1037 and 850-856
BritannicaStep ==
    /\ pc = "link_britannica"
    /\ LET entities_json == JsonDumps(pt_entities) IN
       IF CacheHit("link_to_britannica", entities_json)
       THEN /\ pt_entities' = JsonLoads(CacheResult("link_to_britannica", entities_json))
            /\ UNCHANGED cache
       ELSE \E linked \in LinkToBritannica(JsonLoads(entities_json)) :
            /\ pt_entities' = JsonLoads(JsonDumps(linked))
            /\ cache' = CacheStore("link_to_britannica", entities_json, JsonDumps(linked))
    /\ pc' = "coordinates"
    /\ UNCHANGED <<session, input_text, title, geo_context, nreq, otherVars, stepVars>>

\* lines 1043-1045: without a place entity get_coordinates is not called.
NoPlaceEntities ==
    /\ pc = "coordinates"
    /\ PlaceEntities(pt_entities) = <<>>
    /\ pc' = "link_openstreetmap"
    /\ UNCHANGED <<session, input_text, title, pt_entities, geo_context, cache,
                   nreq, otherVars, stepVars>>

\* lines 1048 and 390-393: get_coordinates detects the context from
\* st.session_state.get('processed_text', '') and the place entities.
DetectContext ==
    /\ pc = "coordinates"
    /\ PlaceEntities(pt_entities) # <<>>
    /\ geo_context' = DetectGeographicalContext(session.processed_text,
                                                PlaceEntities(pt_entities))
    /\ pc' = "geocode"
    /\ UNCHANGED <<session, input_text, title, pt_entities, cache, nreq, otherVars, stepVars>>

\* lines 399-420 and 1050-1061: the geocoding loop, then the copy of the
\* geocoded entities into `entities`; an exception is reported as a warning
\* and the request goes on.
GeocodeStep ==
    /\ pc = "geocode"
    /\ \E r \in GeocodeEntities(PlaceEntities(pt_entities), geo_context) :
        pt_entities' = IF r.raised
                       THEN InPlace(pt_entities, r.entities)
                       ELSE MergeGeocoded(InPlace(pt_entities, r.entities), r.entities)
    /\ pc' = "link_openstreetmap"
    /\ UNCHANGED <<session, input_text, title, geo_context, cache, nreq, otherVars, stepVars>>

\* lines 1063-1066
OpenStreetMapStep ==
    /\ pc = "link_openstreetmap"
    /\ pt_entities' \in LinkToOpenStreetMap(pt_entities)
    /\ pc' = "visualize"
    /\ UNCHANGED <<session, input_text, title, geo_context, cache, nreq, otherVars, stepVars>>

\* lines 1068-1084: the visualization, then the session state.
StoreResults ==
    /\ pc = "visualize"
    /\ session' = StoredSession(session, input_text, pt_entities, title)
    /\ pc' = "idle"
    /\ UNCHANGED <<input_text, title, pt_entities, geo_context, cache, nreq, otherVars, stepVars>>

NextProcess ==
    \/ RejectBlank
    \/ AlreadyProcessed
    \/ ExtractStep
    \/ ExtractFails
    \/ WikidataStep
    \/ WikipediaStep
    \/ BritannicaStep
    \/ NoPlaceEntities
    \/ DetectContext
    \/ GeocodeStep
    \/ OpenStreetMapStep
    \/ StoreResults

SpecProcess == InitProcess /\ [][NextProcess]_vars

(***************************************************************************)
(* Properties of process_text.                                             *)
(***************************************************************************)
\* C10: while a request is geocoded, the context list in use is the one
\* detected from the text of that request and its place entities, whatever
\* was or was not processed before.
C10_ContextOfOwnText ==
    pc = "geocode" =>
        geo_context = DetectGeographicalContext(input_text, PlaceEntities(pt_entities))


(***************************************************************************)
(* The linking and geocoding loops step by step: one step per entity of a  *)
(* linking loop and one step per attempt of a geocoding strategy, with the *)
(* external calls and the rate-limit delays they make.                     *)
(***************************************************************************)
MaxStepEnts == 2   \* most entities of a list that is linked or geocoded
MaxEvents == 3     \* how many of the latest calls and delays are kept

\* Entities as extract_entities returns them: three from the tagger and an
\* address, at spans that do not overlap.
StepCatalogue ==
    { [text |-> <<"P", "a", "r", "i", "s">>, type |-> "LOCATION",
       start |-> 0, end |-> 5, label |-> "LOC"],
      [text |-> <<"A", "c", "m", "e">>, type |-> "ORGANIZATION",
       start |-> 6, end |-> 10, label |-> "ORG"],
      [text |-> <<"B", "o", "b">>, type |-> "PERSON",
       start |-> 11, end |-> 14, label |-> "PER"],
      [text |-> <<"1", "2", " ", "E", "l", "m", " ", "R", "o", "a", "d">>,
       type |-> "ADDRESS", start |-> 15, end |-> 26] }

\* The lists of up to MaxStepEnts of them, in the order of their starts.
StepLists ==
    {l \in SeqsUpTo(StepCatalogue, MaxStepEnts) :
        \A i, j \in 1..Len(l) : i < j => l[i].start < l[j].start}

\* An external call and its response, and a rate-limit delay, as events.
CallEvent(provider, response) ==
    [kind |-> "call", provider |-> provider, response |-> response]
SleepEvent(ms) == [kind |-> "sleep", ms |-> ms]

\* The latest MaxEvents events of s.
Recent(s) ==
    IF Len(s) <= MaxEvents THEN s ELSE SubSeq(s, Len(s) - MaxEvents + 1, Len(s))

\* One more call with this key.
Bump(counts, key) ==
    [k \in DOMAIN counts \cup {key} |->
        IF k \in DOMAIN counts
        THEN IF k = key THEN counts[k] + 1 ELSE counts[k]
        ELSE 1]

\* What requests.get answers to a search: a result, an empty result, a status
\* other than 200, an exception (timeout, connection error), or a body that
\* cannot be read as expected (an exception when it is read).
LinkResponses == {"found", "empty", "status", "timeout", "malformed"}

\* The responses after which the code of a linking loop raises before its
\* time.sleep: the except clause passes and the loop goes on without a delay.
LinkRaises(response) == response \in {"timeout", "malformed"}

\* `except Exception: pass` inside the loop (lines 270-271, 715-716, 765-767):
\* after an exception at position i of n entities the loop goes on with the
\* next one.
AfterExceptionEndsLoop(i, n) == n + 1
AfterException(i, n) == i + 1

\* What a step leaves alone besides the variables it names.
stepFrame == <<session, input_text, title, cache, nreq, otherVars>>

\* link_to_wikidata, lines 692-714: one entity.  The delay of line 712 is
\* inside the try block, after the response is read.
WikidataEntity ==
    /\ pc = "link_to_wikidata"
    /\ loop_i <= Len(pt_entities)
    /\ \E response \in LinkResponses :
        LET entity == pt_entities[loop_i] IN
        /\ \E linked \in (IF response = "found"
                          THEN WikidataFound(entity)
                          ELSE {entity}) :
              pt_entities' = [pt_entities EXCEPT ![loop_i] = linked]
        /\ sent' = Bump(sent, <<loop_i, "link_to_wikidata", "wikidata", entity.text>>)
        /\ events' = Recent(events \o <<CallEvent("wikidata", response)>>
                            \o (IF LinkRaises(response) THEN <<>>
                                ELSE <<SleepEvent(100)>>))
        /\ loop_i' = IF LinkRaises(response)
                     THEN AfterException(loop_i, Len(pt_entities))
                     ELSE loop_i + 1
    /\ UNCHANGED <<pc, geo_context, place_entities, called_with, strategy,
                   invoked, ncalls, stepFrame>>

\* lines 716, 848 and 1023-1028: link_to_wikidata returns, the entities go
\* through JSON and link_to_wikipedia is called with them.
WikidataReturn ==
    /\ pc = "link_to_wikidata"
    /\ loop_i > Len(pt_entities)
    /\ pt_entities' = JsonLoads(JsonDumps(pt_entities))
    /\ loop_i' = 1
    /\ pc' = "link_to_wikipedia"
    /\ UNCHANGED <<geo_context, place_entities, called_with, strategy, events,
                   sent, invoked, ncalls, stepFrame>>

\* link_to_wikipedia, lines 724-727: an entity that has a Wikidata link is
\* passed over.
WikipediaSkip ==
    /\ pc = "link_to_wikipedia"
    /\ loop_i <= Len(pt_entities)
    /\ WikipediaSkips(pt_entities[loop_i])
    /\ loop_i' = loop_i + 1
    /\ UNCHANGED <<pc, pt_entities, geo_context, place_entities, called_with,
                   strategy, events, sent, invoked, ncalls, stepFrame>>

\* link_to_wikipedia, lines 729-765: one entity.  A snippet that is not a
\* string makes re.sub raise after the link and the title are stored.
WikipediaEntity ==
    /\ pc = "link_to_wikipedia"
    /\ loop_i <= Len(pt_entities)
    /\ ~WikipediaSkips(pt_entities[loop_i])
    /\ \E response \in LinkResponses \cup {"malformed snippet"} :
        LET entity == pt_entities[loop_i]
            found == WikipediaFound(entity)
            raises == LinkRaises(response) \/ response = "malformed snippet"
        IN
        /\ \E linked \in (IF response = "found" THEN found
                          ELSE IF response = "malformed snippet"
                          THEN {f \in found : ~HasValue(f, "wikipedia_description")}
                          ELSE {entity}) :
              pt_entities' = [pt_entities EXCEPT ![loop_i] = linked]
        /\ sent' = Bump(sent, <<loop_i, "link_to_wikipedia", "wikipedia", entity.text>>)
        /\ events' = Recent(events \o <<CallEvent("wikipedia", response)>>
                            \o (IF raises THEN <<>> ELSE <<SleepEvent(200)>>))
        /\ loop_i' = IF raises THEN AfterException(loop_i, Len(pt_entities))
                     ELSE loop_i + 1
    /\ UNCHANGED <<pc, geo_context, place_entities, called_with, strategy,
                   invoked, ncalls, stepFrame>>

\* lines 767, 864 and 1030-1035
WikipediaReturn ==
    /\ pc = "link_to_wikipedia"
    /\ loop_i > Len(pt_entities)
    /\ pt_entities' = JsonLoads(JsonDumps(pt_entities))
    /\ loop_i' = 1
    /\ pc' = "link_to_britannica"
    /\ UNCHANGED <<geo_context, place_entities, called_with, strategy, events,
                   sent, invoked, ncalls, stepFrame>>

\* link_to_britannica, lines 242-245
BritannicaSkip ==
    /\ pc = "link_to_britannica"
    /\ loop_i <= Len(pt_entities)
    /\ BritannicaSkips(pt_entities[loop_i])
    /\ loop_i' = loop_i + 1
    /\ UNCHANGED <<pc, pt_entities, geo_context, place_entities, called_with,
                   strategy, events, sent, invoked, ncalls, stepFrame>>

\* link_to_britannica, lines 247-269: one entity.  The page is searched with
\* a regular expression, so a body of any shape is read without an exception:
\* "malformed" ends like "empty".
BritannicaEntity ==
    /\ pc = "link_to_britannica"
    /\ loop_i <= Len(pt_entities)
    /\ ~BritannicaSkips(pt_entities[loop_i])
    /\ \E response \in LinkResponses :
        LET entity == pt_entities[loop_i]
            raises == response = "timeout"
        IN
        /\ \E linked \in (IF response = "found"
                          THEN BritannicaFound(entity)
                          ELSE {entity}) :
              pt_entities' = [pt_entities EXCEPT ![loop_i] = linked]
        /\ sent' = Bump(sent, <<loop_i, "link_to_britannica", "britannica", entity.text>>)
        /\ events' = Recent(events \o <<CallEvent("britannica", response)>>
                            \o (IF raises THEN <<>> ELSE <<SleepEvent(300)>>))
        /\ loop_i' = IF raises THEN AfterException(loop_i, Len(pt_entities))
                     ELSE loop_i + 1
    /\ UNCHANGED <<pc, geo_context, place_entities, called_with, strategy,
                   invoked, ncalls, stepFrame>>

\* lines 271, 856 and 1037: the linking chain is through.
BritannicaReturn ==
    /\ pc = "link_to_britannica"
    /\ loop_i > Len(pt_entities)
    /\ pt_entities' = JsonLoads(JsonDumps(pt_entities))
    /\ loop_i' = 0
    /\ pc' = "place_entities"
    /\ UNCHANGED <<geo_context, place_entities, called_with, strategy, events,
                   sent, invoked, ncalls, stepFrame>>

NextLink ==
    \/ WikidataEntity
    \/ WikidataReturn
    \/ WikipediaSkip
    \/ WikipediaEntity
    \/ WikipediaReturn
    \/ BritannicaSkip
    \/ BritannicaEntity
    \/ BritannicaReturn

(***************************************************************************)
(* SpecLink: the linking chain of process_text (lines 1018-1037) on a list *)
(* of extracted entities.                                                  *)
(***************************************************************************)
InitLink ==
    /\ pc = "link_to_wikidata"
    /\ pt_entities \in StepLists
    /\ loop_i = 1
    /\ session = InitSession
    /\ input_text = <<>>
    /\ title = "text_analysis"
    /\ geo_context = <<>>
    /\ cache = {}
    /\ nreq = 1
    /\ place_entities = <<>>
    /\ called_with = <<>>
    /\ strategy = [name |-> "none"]
    /\ events = <<>>
    /\ sent = <<>>
    /\ invoked = <<>>
    /\ ncalls = 0
    /\ ResolveIdle
    /\ ExtractIdle
    /\ HelperIdle

SpecLink == InitLink /\ [][NextLink]_vars

(***************************************************************************)
(* Properties of the linking chain.                                        *)
(***************************************************************************)
\* The entity at position i was sent to this provider.
Queried(i, provider) == \E key \in DOMAIN sent : key[1] = i /\ key[3] = provider

\* C11: the sources are consulted in the order Wikidata, Wikipedia,
\* Britannica; Wikipedia is queried only for an entity that has no Wikidata
\* link, and Britannica only for an entity that has neither a Wikidata nor a
\* Wikipedia link.
C11_FallbackOrder ==
    /\ (\E i \in 1..Len(pt_entities) : Queried(i, "wikipedia"))
           => pc # "link_to_wikidata"
    /\ (\E i \in 1..Len(pt_entities) : Queried(i, "britannica"))
           => pc \notin {"link_to_wikidata", "link_to_wikipedia"}
    /\ \A i \in 1..Len(pt_entities) :
        /\ Queried(i, "wikipedia") => ~Truthy(pt_entities[i], "wikidata_url")
        /\ Queried(i, "britannica") =>
               /\ ~Truthy(pt_entities[i], "wikidata_url")
               /\ ~Truthy(pt_entities[i], "wikipedia_url")
               /\ Queried(i, "wikipedia")
        /\ (pc = "link_to_wikipedia" \/ Queried(i, "wikipedia"))
               => Queried(i, "wikidata")

\* C11 witness: the chain is through; the first entity went to all three
\* sources, the second was linked by Wikipedia and did not go to Britannica.
C11_Witness ==
    /\ pc = "place_entities"
    /\ Len(pt_entities) = 2
    /\ Queried(1, "wikidata") /\ Queried(1, "wikipedia") /\ Queried(1, "britannica")
    /\ Truthy(pt_entities[2], "wikipedia_url")
    /\ ~Queried(2, "britannica")


\* The links of the three knowledge sources that an entity carries.
SourceLinks(e) ==
    {k \in {"wikidata_url", "wikipedia_url", "britannica_url"} : Truthy(e, k)}

C12_HasBoth(e) ==
    /\ Truthy(e, "wikidata_url")
    /\ Truthy(e, "wikipedia_url") \/ Truthy(e, "britannica_url")

C13_Due(provider, i) ==
    IF provider = "wikidata" THEN TRUE
    ELSE IF provider = "wikipedia" THEN ~Truthy(pt_entities[i], "wikidata_url")
    ELSE SourceLinks(pt_entities[i]) \subseteq {"britannica_url"}

C13_Returned(provider) ==
    IF provider = "wikidata" THEN pc \in {"link_to_wikipedia", "link_to_britannica", "place_entities"}
    ELSE IF provider = "wikipedia" THEN pc \in {"link_to_britannica", "place_entities"}
    ELSE pc = "place_entities"

C13_Running(provider) ==
    IF provider = "wikidata" THEN pc = "link_to_wikidata"
    ELSE IF provider = "wikipedia" THEN pc = "link_to_wikipedia"
    ELSE pc = "link_to_britannica"

\* C13: whatever the calls answer (a timeout, a status other than 200, a
\* malformed body included), each linking loop goes through its list entity by
\* entity and returns: while it runs, every entity before its position that it
\* had to query was queried, and once it has returned, every entity of the
\* list was.
C13_FailuresDoNotStopTheLoop ==
    \A provider \in {"wikidata", "wikipedia", "britannica"} :
        /\ C13_Running(provider) =>
               /\ loop_i \in 1..(Len(pt_entities) + 1)
               /\ \A i \in 1..(loop_i - 1) :
                      C13_Due(provider, i) => Queried(i, provider)
        /\ C13_Returned(provider) =>
               \A i \in 1..Len(pt_entities) :
                   C13_Due(provider, i) => Queried(i, provider)

\* C13 witness: link_to_wikidata has returned; its call for the first entity
\* timed out and its call for the second entity, made after that, found a
\* result that was stored.
C13_Witness ==
    /\ pc = "link_to_wikipedia"
    /\ loop_i = 1
    /\ Len(pt_entities) = 2
    /\ Len(events) = 3
    /\ events[1] = CallEvent("wikidata", "timeout")
    /\ events[2] = CallEvent("wikidata", "found")
    /\ Truthy(pt_entities[2], "wikidata_url")
    /\ ~Truthy(pt_entities[1], "wikidata_url")


\* C14: every external call is followed by a rate-limit delay before the next
\* external call, whatever its outcome: no call comes directly after a call.
C14_DelayAfterEveryCall ==
    \A k \in 1..(Len(events) - 1) :
        events[k].kind = "call" => events[k + 1].kind = "sleep"


(***************************************************************************)
(* get_coordinates, lines 384-420, step by step.                           *)
(***************************************************************************)
MaxCalls == 2      \* most calls of get_coordinates on one list

\* The entity of the running loop and its position in pt_entities.
CurrentIndex == place_entities[loop_i]
CurrentEntity == pt_entities[CurrentIndex]

\* The argument of get_coordinates: the dicts at these positions.
ArgumentEntities ==
    IF place_entities = <<>> THEN <<>>
    ELSE [k \in 1..Len(place_entities) |-> pt_entities[place_entities[k]]]

\* What geocoder.geocode answers: a location, None, GeocoderTimedOut or
\* GeocoderServiceError, or another exception.
GeopyResponses == {"found", "none", "timeout", "error"}

\* What the search endpoint answers to requests.get: a result, a result with a
\* latitude but no usable longitude, an empty list, a status other than 200,
\* an exception, or a body that cannot be read.
OsmResponses == {"found", "half", "empty", "status", "timeout", "malformed"}

\* lines 463 and 481: how many of the search terms each provider of the
\* contextual strategy is given.
GeopyTerms == 5
OsmTerms == 3

\* `continue` after a strategy returned True and the end of the loop body
\* (lines 406-418): the loop goes on with the next entity.
NextEntity ==
    /\ loop_i' = loop_i + 1
    /\ strategy' = [name |-> "none"]
    /\ pc' = "get_coordinates"

\* Mutant of NextTerm: the term that failed is tried again.
NextTermRetries(k) == k

\* `continue` and the end of the body of a loop over search terms or
\* geocoders (lines 463-477, 481-507, 522-536, 592-617): the next one is
\* taken, whatever became of this one.
NextTerm(k) == k + 1

\* Mutant of AfterStrategy: the `continue` is missing and the next strategy is
\* attempted whatever the strategy returned.
AfterStrategyWithoutContinue(returned, next) ==
    /\ loop_i' = loop_i
    /\ strategy' = [name |-> "none"]
    /\ pc' = next

\* lines 406-415, `if self._try_...(entity): continue`: after True the loop
\* goes on with the next entity, after False with the next strategy.
AfterStrategy(returned, next) ==
    IF returned THEN NextEntity
    ELSE /\ loop_i' = loop_i
         /\ strategy' = [name |-> "none"]
         /\ pc' = next

\* The entity of the running loop becomes e.
StoreCurrent(e) == pt_entities' = [pt_entities EXCEPT ![CurrentIndex] = e]

\* One call of a strategy for the current entity with this term.
CountCall(provider, term) ==
    sent' = Bump(sent, <<CurrentIndex, strategy.name, provider, term>>)

geoFrame == <<session, input_text, title, cache, nreq, otherVars>>

\* lines 384-396: the call; the context is detected from
\* st.session_state.get('processed_text', '') and the entities.
GetCoordinates ==
    /\ pc = "get_coordinates_call"
    /\ geo_context' = DetectGeographicalContext(session.processed_text, ArgumentEntities)
    /\ called_with' = pt_entities
    /\ loop_i' = 1
    /\ strategy' = [name |-> "none"]
    /\ sent' = <<>>
    /\ invoked' = <<>>
    /\ ncalls' = ncalls + 1
    /\ pc' = "get_coordinates"
    /\ UNCHANGED <<pt_entities, place_entities, events, geoFrame>>

\* Mutant of AlreadyLocated: the test is made on the longitude.
AlreadyLocatedByLongitude(e) == HasValue(e, "longitude")

\* line 403: entity.get('latitude') is not None
AlreadyLocated(e) == HasValue(e, "latitude")

\* lines 399-404: an entity that is not of a place type, or that has a
\* latitude, is passed over.
SkipEntity ==
    /\ pc = "get_coordinates"
    /\ loop_i <= Len(place_entities)
    /\ \/ CurrentEntity.type \notin place_types
       \/ AlreadyLocated(CurrentEntity)
    /\ loop_i' = loop_i + 1
    /\ UNCHANGED <<pc, pt_entities, geo_context, place_entities, called_with,
                   strategy, events, sent, invoked, ncalls, geoFrame>>

\* lines 406 and 422-454: _try_contextual_geocoding is called; without
\* context clues it returns False at once.
StartContextual ==
    /\ pc = "get_coordinates"
    /\ loop_i <= Len(place_entities)
    /\ CurrentEntity.type \in place_types
    /\ ~AlreadyLocated(CurrentEntity)
    /\ invoked' = Append(invoked, <<CurrentIndex, "contextual">>)
    /\ IF geo_context = <<>>
       THEN AfterStrategy(FALSE, "try_python")
       ELSE /\ pc' = "contextual_geopy"
            /\ loop_i' = loop_i
            /\ strategy' = [name |-> "contextual", k |-> 1,
                            search_variations |->
                                SearchVariations(CurrentEntity.text, geo_context)]
    /\ UNCHANGED <<pt_entities, geo_context, place_entities, called_with,
                   events, sent, ncalls, geoFrame>>

\* lines 457-479: one search term for geopy's Nominatim.  If geopy cannot be
\* imported (line 458) no term is tried.  An exception that is neither
\* GeocoderTimedOut nor GeocoderServiceError leaves get_coordinates.
ContextualGeopy ==
    /\ pc = "contextual_geopy"
    /\ LET terms == Prefix(strategy.search_variations, GeopyTerms)
           term == terms[strategy.k]
           last == strategy.k = Len(terms)
       IN \E response \in GeopyResponses \cup
                          (IF strategy.k = 1 THEN {"import error"} ELSE {}) :
          IF response = "import error"
          THEN /\ pc' = "contextual_osm"
               /\ strategy' = [strategy EXCEPT !.k = 1]
               /\ UNCHANGED <<pt_entities, loop_i, sent>>
          ELSE /\ CountCall("geopy_nominatim", term)
               /\ IF response = "found"
                  THEN /\ StoreCurrent(LocatedBy(CurrentEntity, "geopy_contextual", term))
                       /\ AfterStrategy(TRUE, "try_python")
                  ELSE IF response = "error"
                  THEN /\ pc' = "get_coordinates_raised"
                       /\ UNCHANGED <<pt_entities, loop_i, strategy>>
                  ELSE /\ UNCHANGED <<pt_entities, loop_i>>
                       /\ IF last
                          THEN /\ pc' = "contextual_osm"
                               /\ strategy' = [strategy EXCEPT !.k = 1]
                          ELSE /\ pc' = pc
                               /\ strategy' = [strategy EXCEPT !.k = NextTerm(@)]
    /\ UNCHANGED <<geo_context, place_entities, called_with, invoked, ncalls,
                   events, geoFrame>>

\* lines 481-509: one search term for the search endpoint; after the last
\* one _try_contextual_geocoding returns False.
ContextualOsm ==
    /\ pc = "contextual_osm"
    /\ LET terms == Prefix(strategy.search_variations, OsmTerms)
           term == terms[strategy.k]
           last == strategy.k = Len(terms)
       IN \E response \in OsmResponses :
          /\ CountCall("openstreetmap", term)
          /\ IF response = "found"
             THEN /\ StoreCurrent(LocatedBy(CurrentEntity, "openstreetmap_contextual", term))
                  /\ AfterStrategy(TRUE, "try_python")
             ELSE /\ StoreCurrent(IF response = "half"
                                  THEN HalfLocated(CurrentEntity) ELSE CurrentEntity)
                  /\ IF last
                     THEN AfterStrategy(FALSE, "try_python")
                     ELSE /\ pc' = pc
                          /\ loop_i' = loop_i
                          /\ strategy' = [strategy EXCEPT !.k = NextTerm(@)]
    /\ UNCHANGED <<geo_context, place_entities, called_with, invoked, ncalls,
                   events, geoFrame>>

\* lines 410 and 511-520: _try_python_geocoding is called.
StartPython ==
    /\ pc = "try_python"
    /\ invoked' = Append(invoked, <<CurrentIndex, "python">>)
    /\ strategy' = [name |-> "python", k |-> 1]
    /\ pc' = "python_geocoding"
    /\ UNCHANGED <<pt_entities, geo_context, place_entities, called_with, loop_i,
                   events, sent, ncalls, geoFrame>>

\* lines 518-521: the geocoders of _try_python_geocoding, in their order.
geocoders == <<"nominatim", "arcgis">>

\* lines 513-543: one geocoder.  The name `time` is bound neither in the
\* function nor in the module, so time.sleep at line 532 raises NameError,
\* which line 535 catches: no delay follows a call.  Every exception is
\* caught; after the last geocoder the function returns False.
PythonGeocoding ==
    /\ pc = "python_geocoding"
    /\ LET name == geocoders[strategy.k]
           last == strategy.k = Len(geocoders)
       IN \E response \in GeopyResponses \cup
                          (IF strategy.k = 1 THEN {"import error"} ELSE {}) :
          IF response = "import error"
          THEN /\ AfterStrategy(FALSE, "try_openstreetmap")
               /\ UNCHANGED <<pt_entities, sent>>
          ELSE /\ CountCall("geopy_" \o name, CurrentEntity.text)
               /\ IF response = "found"
                  THEN /\ StoreCurrent(Located(CurrentEntity, "geopy_" \o name))
                       /\ AfterStrategy(TRUE, "try_openstreetmap")
                  ELSE /\ UNCHANGED pt_entities
                       /\ IF last
                          THEN AfterStrategy(FALSE, "try_openstreetmap")
                          ELSE /\ pc' = pc
                               /\ loop_i' = loop_i
                               /\ strategy' = [strategy EXCEPT !.k = NextTerm(@)]
    /\ UNCHANGED <<geo_context, place_entities, called_with, invoked, ncalls,
                   events, geoFrame>>

\* lines 413 and 545-574: _try_openstreetmap is called; line 557 raises
\* NameError before a request is made and the function returns False.
DirectOpenStreetMap ==
    /\ pc = "try_openstreetmap"
    /\ invoked' = Append(invoked, <<CurrentIndex, "openstreetmap">>)
    /\ \E o \in TryOpenStreetMap(CurrentEntity) :
          /\ StoreCurrent(o.entity)
          /\ AfterStrategy(o.found, "try_aggressive")
    /\ UNCHANGED <<geo_context, place_entities, called_with, events, sent, ncalls,
                   geoFrame>>

\* lines 417 and 576-590: _try_aggressive_geocoding is called.
StartAggressive ==
    /\ pc = "try_aggressive"
    /\ invoked' = Append(invoked, <<CurrentIndex, "aggressive">>)
    /\ strategy' = [name |-> "aggressive", k |-> 1,
                    search_variations |-> AggressiveVariations(CurrentEntity.text)]
    /\ pc' = "aggressive"
    /\ UNCHANGED <<pt_entities, geo_context, place_entities, called_with, loop_i,
                   events, sent, ncalls, geoFrame>>

\* lines 592-619: one search term of the aggressive strategy; whether it
\* returns True or False, the loop of get_coordinates goes on.
Aggressive ==
    /\ pc = "aggressive"
    /\ LET term == strategy.search_variations[strategy.k]
           last == strategy.k = Len(strategy.search_variations)
       IN \E response \in OsmResponses :
          /\ CountCall("openstreetmap", term)
          /\ IF response = "found"
             THEN /\ StoreCurrent(LocatedBy(CurrentEntity, "openstreetmap_aggressive", term))
                  /\ NextEntity
             ELSE /\ StoreCurrent(IF response = "half"
                                  THEN HalfLocated(CurrentEntity) ELSE CurrentEntity)
                  /\ IF last
                     THEN NextEntity
                     ELSE /\ pc' = pc
                          /\ loop_i' = loop_i
                          /\ strategy' = [strategy EXCEPT !.k = NextTerm(@)]
    /\ UNCHANGED <<geo_context, place_entities, called_with, invoked, ncalls,
                   events, geoFrame>>

\* line 420
GetCoordinatesReturn ==
    /\ pc = "get_coordinates"
    /\ loop_i > Len(place_entities)
    /\ pc' = "get_coordinates_returned"
    /\ UNCHANGED <<pt_entities, geo_context, place_entities, called_with, loop_i,
                   strategy, events, sent, invoked, ncalls, geoFrame>>

\* get_coordinates is called once more with the same list.
CallAgain ==
    /\ pc \in {"get_coordinates_returned", "get_coordinates_raised"}
    /\ ncalls < MaxCalls
    /\ pc' = "get_coordinates_call"
    /\ UNCHANGED <<pt_entities, geo_context, place_entities, called_with, loop_i,
                   strategy, events, sent, invoked, ncalls, geoFrame>>

NextGetCoordinates ==
    \/ GetCoordinates
    \/ SkipEntity
    \/ StartContextual
    \/ ContextualGeopy
    \/ ContextualOsm
    \/ StartPython
    \/ PythonGeocoding
    \/ DirectOpenStreetMap
    \/ StartAggressive
    \/ Aggressive
    \/ GetCoordinatesReturn

(***************************************************************************)
(* SpecGeocode: get_coordinates called, up to MaxCalls times, on a list of *)
(* entities some of which may have coordinates already.                    *)
(***************************************************************************)
\* An entity that was geocoded before.
GeocodedBefore ==
    { [text |-> <<"R", "o", "m", "e">>, type |-> "LOCATION", start |-> 27,
       end |-> 31, label |-> "LOC", latitude |-> 41, longitude |-> 12,
       location_name |-> "address", geocoding_source |-> "geopy_nominatim"] }

\* The entities get_coordinates is called with: two of place types, a person
\* and one that has coordinates.
GeocodeCatalogue ==
    {e \in StepCatalogue : e.type \in {"LOCATION", "ORGANIZATION", "PERSON"}}
    \cup GeocodedBefore

GeocodeLists ==
    {l \in SeqsUpTo(GeocodeCatalogue, MaxStepEnts) :
        \A i, j \in 1..Len(l) : i < j => l[i].start < l[j].start}

\* The texts st.session_state.processed_text may hold.
GeocodeTexts == {<<>>, TextAcmeUk}

InitGeocode ==
    /\ pc = "get_coordinates_call"
    /\ pt_entities \in GeocodeLists
    /\ place_entities = IF pt_entities = <<>> THEN <<>>
                        ELSE [k \in 1..Len(pt_entities) |-> k]
    /\ session \in {[InitSession EXCEPT !.processed_text = t] : t \in GeocodeTexts}
    /\ input_text = <<>>
    /\ title = "text_analysis"
    /\ geo_context = <<>>
    /\ cache = {}
    /\ nreq = 0
    /\ loop_i = 0
    /\ called_with = <<>>
    /\ strategy = [name |-> "none"]
    /\ events = <<>>
    /\ sent = <<>>
    /\ invoked = <<>>
    /\ ncalls = 0
    /\ ResolveIdle
    /\ ExtractIdle
    /\ HelperIdle

NextGeocode == NextGetCoordinates \/ CallAgain

SpecGeocode == InitGeocode /\ [][NextGeocode]_vars

(***************************************************************************)
(* Properties of get_coordinates.                                          *)
(***************************************************************************)
\* lines 406-417: the strategies in the order of their calls.
strategies == <<"contextual", "python", "openstreetmap", "aggressive">>

\* The strategy a value of geocoding_source names (lines 474, 499, 529, 565
\* and 612).
StrategyOf(source) ==
    IF source \in {"geopy_contextual", "openstreetmap_contextual"} THEN "contextual"
    ELSE IF source \in {"geopy_nominatim", "geopy_arcgis"} THEN "python"
    ELSE IF source = "openstreetmap" THEN "openstreetmap"
    ELSE "aggressive"

\* The strategies invoked so far, in this call, for the entity at position i.
RECURSIVE InvokedFor(_, _)
InvokedFor(i, n) ==
    IF n = 0 THEN <<>>
    ELSE IF invoked[n][1] = i THEN Append(InvokedFor(i, n - 1), invoked[n][2])
    ELSE InvokedFor(i, n - 1)

\* A strategy returned True for the entity at position i in this call.
Succeeded(i) ==
    /\ i <= Len(called_with)
    /\ ~HasValue(called_with[i], "latitude")
    /\ HasValue(pt_entities[i], "geocoding_source")

\* C15: for each entity the strategies are attempted in the order contextual,
\* library fallback, direct map search, aggressive fallback, each one only
\* after every earlier one was attempted and failed; once one has succeeded
\* it stays the last one attempted for the entity.
C15_StrategiesInOrder ==
    \A i \in 1..Len(pt_entities) :
        LET mine == InvokedFor(i, Len(invoked)) IN
        /\ mine = Prefix(strategies, Len(mine))
        /\ mine # <<>> =>
              /\ called_with[i].type \in place_types
              /\ ~HasValue(called_with[i], "latitude")
        /\ Succeeded(i) =>
              /\ mine # <<>>
              /\ mine[Len(mine)] = StrategyOf(pt_entities[i].geocoding_source)

\* The library fallback has succeeded for the first of two entities after the
\* contextual strategy failed, and the loop is at the second.
C15_Witness ==
    /\ Len(pt_entities) = 2
    /\ loop_i = 2
    /\ Succeeded(1)
    /\ InvokedFor(1, Len(invoked)) = <<"contextual", "python">>
    /\ InvokedFor(2, Len(invoked)) # <<>>

\* The fields a geocoding strategy may set.
geocoding_fields ==
    {"latitude", "longitude", "location_name", "geocoding_source",
     "search_term_used"}

\* C16: when get_coordinates has returned, whatever the providers answered,
\* every entity has both latitude and longitude or neither, and an entity for
\* which no strategy has succeeded has no geocoding field.
C16_BothCoordinatesOrNeither ==
    pc = "get_coordinates_returned" =>
    \A i \in 1..Len(pt_entities) :
        /\ HasValue(pt_entities[i], "latitude") <=> HasValue(pt_entities[i], "longitude")
        /\ ~HasValue(pt_entities[i], "geocoding_source") =>
              \A f \in geocoding_fields : ~HasValue(pt_entities[i], f)

\* C17: an entity for which a strategy has succeeded has all five of
\* latitude, longitude, location_name, geocoding_source and search_term_used,
\* and its geocoding_source names the strategy that succeeded, the last one
\* invoked for it.
C17_SuccessSetsAllFive ==
    \A i \in 1..Len(pt_entities) :
        Succeeded(i) =>
            /\ \A f \in geocoding_fields : HasValue(pt_entities[i], f)
            /\ LET mine == InvokedFor(i, Len(invoked)) IN
               mine # <<>> /\ StrategyOf(pt_entities[i].geocoding_source) = mine[Len(mine)]

\* The external calls made, in this call of get_coordinates, for the entity
\* at position i.
CallsFor(i) == {key \in DOMAIN sent : key[1] = i}

\* C18: however many times get_coordinates is called, an entity that had a
\* latitude when it was called keeps all its fields as they were, no strategy
\* is invoked for it and no external call is made for it.
C18_LocatedEntityIsLeftAlone ==
    \A i \in 1..Len(called_with) :
        HasValue(called_with[i], "latitude") =>
            /\ pt_entities[i] = called_with[i]
            /\ CallsFor(i) = {}
            /\ InvokedFor(i, Len(invoked)) = <<>>

\* The second call on two entities has returned: the first was located by the
\* first call, the second was not and has been searched for again.
C18_Witness ==
    /\ pc = "get_coordinates_returned"
    /\ ncalls = 2
    /\ Len(called_with) = 2
    /\ HasValue(called_with[1], "search_term_used")
    /\ ~HasValue(called_with[2], "latitude")
    /\ CallsFor(2) # {}

\* C19: within one call of get_coordinates, no strategy is invoked twice for
\* one entity, and within a strategy no search term is sent twice to one
\* provider for one entity: nothing that failed is tried again.
C19_NothingIsTriedTwice ==
    /\ \A m, n \in 1..Len(invoked) : invoked[m] = invoked[n] => m = n
    /\ \A key \in DOMAIN sent : sent[key] = 1

\* Every strategy has been invoked for the first entity and has failed, the
\* contextual one after five terms sent to geopy and three to the search
\* endpoint, the aggressive one after seven.
C19_Witness ==
    /\ pc = "get_coordinates_returned"
    /\ InvokedFor(1, Len(invoked)) = strategies
    /\ ~HasValue(pt_entities[1], "latitude")
    /\ Cardinality({key \in CallsFor(1) : key[2] = "contextual"}) = 8
    /\ Cardinality({key \in CallsFor(1) : key[2] = "aggressive"}) = 7

(***************************************************************************)
(* SpecEnrich: the enrichment steps of process_text (lines 1018-1066) on a *)
(* list of extracted entities, entity by entity: the linking chain, the    *)
(* place filter, get_coordinates, the merge-back and link_to_openstreetmap.*)
(***************************************************************************)
\* line 1043: the positions in `entities` of the dicts place_entities holds.
PlacePositions(ents) ==
    LET IsPlaceAt(i) == IsPlaceEntity(ents[i])
    IN  SelectSeq([i \in 1..Len(ents) |-> i], IsPlaceAt)

\* lines 1039-1048: place_entities is built; get_coordinates is called if it
\* is not empty.  The record of the chain's calls ends here.
PlaceFilter ==
    /\ pc = "place_entities"
    /\ place_entities' = (IF pt_entities = <<>> THEN <<>>
                          ELSE PlacePositions(pt_entities))
    /\ IF place_entities' = <<>>
       THEN pc' = "link_to_openstreetmap" /\ loop_i' = 1
       ELSE pc' = "get_coordinates_call" /\ loop_i' = 0
    /\ events' = <<>>
    /\ sent' = <<>>
    /\ UNCHANGED <<pt_entities, geo_context, called_with, strategy, invoked,
                   ncalls, stepFrame>>

\* lines 1051-1052: the loop over geocoded_entities starts.  The record of the
\* call of get_coordinates ends here.
MergeBackStart ==
    /\ pc = "get_coordinates_returned"
    /\ loop_i' = 1
    /\ pc' = "merge_back"
    /\ sent' = <<>>
    /\ invoked' = <<>>
    /\ UNCHANGED <<pt_entities, geo_context, place_entities, called_with, strategy,
                   events, ncalls, stepFrame>>

\* lines 1052-1058: one geocoded entity is put at the place of the first
\* entity with its text, type and start.
MergeBackEntity ==
    /\ pc = "merge_back"
    /\ loop_i <= Len(place_entities)
    /\ pt_entities' = ReplaceFirstMatch(pt_entities, pt_entities[place_entities[loop_i]])
    /\ loop_i' = loop_i + 1
    /\ UNCHANGED <<pc, geo_context, place_entities, called_with, strategy,
                   events, sent, invoked, ncalls, stepFrame>>

\* line 1058: the last geocoded entity is merged.
MergeBackDone ==
    /\ pc = "merge_back"
    /\ loop_i > Len(place_entities)
    /\ loop_i' = 1
    /\ pc' = "link_to_openstreetmap"
    /\ UNCHANGED <<pt_entities, geo_context, place_entities, called_with, strategy,
                   events, sent, invoked, ncalls, stepFrame>>

\* lines 1059-1061: an exception that left get_coordinates becomes a warning;
\* what the strategies stored before it stays in the dicts.
GeocodingWarning ==
    /\ pc = "get_coordinates_raised"
    /\ loop_i' = 1
    /\ pc' = "link_to_openstreetmap"
    /\ sent' = <<>>
    /\ invoked' = <<>>
    /\ strategy' = [name |-> "none"]
    /\ UNCHANGED <<pt_entities, geo_context, place_entities, called_with,
                   events, ncalls, stepFrame>>

\* lines 774-777: an entity that is not an address is passed over.
OpenStreetMapSkip ==
    /\ pc = "link_to_openstreetmap"
    /\ loop_i <= Len(pt_entities)
    /\ pt_entities[loop_i].type # "ADDRESS"
    /\ loop_i' = loop_i + 1
    /\ UNCHANGED <<pc, pt_entities, geo_context, place_entities, called_with,
                   strategy, events, sent, invoked, ncalls, stepFrame>>

\* lines 779-808: one address.
OpenStreetMapEntity ==
    /\ pc = "link_to_openstreetmap"
    /\ loop_i <= Len(pt_entities)
    /\ pt_entities[loop_i].type = "ADDRESS"
    /\ \E linked \in OpenStreetMapOutcomes(pt_entities[loop_i]) :
          pt_entities' = [pt_entities EXCEPT ![loop_i] = linked]
    /\ sent' = Bump(sent, <<loop_i, "link_to_openstreetmap", "openstreetmap",
                            pt_entities[loop_i].text>>)
    /\ loop_i' = loop_i + 1
    /\ UNCHANGED <<pc, geo_context, place_entities, called_with, strategy, events,
                   invoked, ncalls, stepFrame>>

\* lines 810 and 1066
OpenStreetMapReturn ==
    /\ pc = "link_to_openstreetmap"
    /\ loop_i > Len(pt_entities)
    /\ loop_i' = 0
    /\ pc' = "create_highlighted_html"
    /\ UNCHANGED <<pt_entities, geo_context, place_entities, called_with, strategy,
                   events, sent, invoked, ncalls, stepFrame>>

\* The entities of place_entities come from the linking chain and have no
\* latitude, and all are of a place type: line 402 never holds here.
NextEnrich ==
    \/ NextLink
    \/ PlaceFilter
    \/ GetCoordinates
    \/ StartContextual
    \/ ContextualGeopy
    \/ ContextualOsm
    \/ StartPython
    \/ PythonGeocoding
    \/ DirectOpenStreetMap
    \/ StartAggressive
    \/ Aggressive
    \/ GetCoordinatesReturn
    \/ MergeBackStart
    \/ MergeBackEntity
    \/ MergeBackDone
    \/ GeocodingWarning
    \/ OpenStreetMapSkip
    \/ OpenStreetMapEntity
    \/ OpenStreetMapReturn

SpecEnrich == InitLink /\ [][NextEnrich]_vars

\* The position in `entities` of the entity the running step is processing
\* (0 between the loops).
Processing ==
    IF pc \in {"link_to_wikidata", "link_to_wikipedia", "link_to_britannica",
               "link_to_openstreetmap"}
    THEN loop_i
    ELSE IF /\ pc \in {"get_coordinates", "contextual_geopy", "contextual_osm",
                       "try_python", "python_geocoding", "try_openstreetmap",
                       "try_aggressive", "aggressive", "merge_back"}
            /\ loop_i \in 1..Len(place_entities)
    THEN place_entities[loop_i]
    ELSE 0

\* C20: every step of the linking chain, of get_coordinates, of the merge-back
\* and of link_to_openstreetmap keeps the number of entities and the text,
\* type, start and end of each, and changes no entity but the one it is
\* processing.
C20_EnrichmentIsLocal ==
    [][ /\ Len(pt_entities') = Len(pt_entities)
        /\ \A j \in 1..Len(pt_entities) :
              /\ pt_entities'[j].text = pt_entities[j].text
              /\ pt_entities'[j].type = pt_entities[j].type
              /\ pt_entities'[j].start = pt_entities[j].start
              /\ pt_entities'[j].end = pt_entities[j].end
              /\ j # Processing => pt_entities'[j] = pt_entities[j] ]_vars

\* All steps are through for an organization and an address: the chain
\* linked the organization, get_coordinates located it and it was merged
\* back, and link_to_openstreetmap linked the address.
C20_Witness ==
    /\ pc = "create_highlighted_html"
    /\ Len(pt_entities) = 2
    /\ place_entities = <<1>>
    /\ Truthy(pt_entities[1], "wikipedia_url")
    /\ HasValue(pt_entities[1], "geocoding_source")
    /\ pt_entities[2].type = "ADDRESS"
    /\ Truthy(pt_entities[2], "openstreetmap_url")

(***************************************************************************)
(* Properties of the session state.                                        *)
(***************************************************************************)
\* A call of process_text returns in this step without having run the
\* pipeline.
ReturnsAtOnce == pc = "idle" /\ pc' = "idle" /\ nreq' = nreq + 1

\* C21: a request whose entity extraction throws ends at once, with no
\* entity set, and entities, processed_text, html_content, analysis_title and
\* last_processed_hash of the session state as they were before it.
C21_FailedExtractionKeepsSession ==
    [][ (/\ ReturnsAtOnce
         /\ Strip(input_text') # <<>>
         /\ Md5(input_text') # session.last_processed_hash)
        => /\ session' = session
           /\ pt_entities' = <<>> ]_vars

\* A request was processed and stored, and the extraction of the next
\* request, for another text, has failed.
C21_Witness ==
    /\ pc = "idle"
    /\ nreq = 2
    /\ session.processed_text # <<>>
    /\ session.entities # <<>>
    /\ Strip(input_text) # <<>>
    /\ input_text # session.processed_text
    /\ pt_entities = <<>>

\* What identifies an extracted entity: its text, type, start and end.
Identity(ents) ==
    IF ents = <<>> THEN <<>>
    ELSE [i \in 1..Len(ents) |->
            [text |-> ents[i].text, type |-> ents[i].type,
             start |-> ents[i].start, end |-> ents[i].end]]

\* C29: after any sequence of requests the session state is consistent:
\* either it is as initialised, or last_processed_hash is the hash of
\* processed_text, entities are the entities extracted from processed_text
\* (with what the pipeline added to them) and html_content is the
\* visualization of processed_text with these entities; and a step that
\* changes the session state stores all of them for the text of the request.
C29_SessionConsistent ==
    /\ [](\/ session = InitSession
          \/ /\ session.last_processed_hash = Md5(session.processed_text)
             /\ Identity(session.entities) = Identity(ExtractEntities(session.processed_text))
             /\ session.html_content =
                   CreateHighlightedHtml(session.processed_text, session.entities))
    /\ [][ session' # session =>
              /\ session'.processed_text = input_text
              /\ session'.last_processed_hash = Md5(input_text)
              /\ session'.entities = pt_entities
              /\ session'.html_content = CreateHighlightedHtml(input_text, pt_entities) ]_vars

\* Two requests for different texts have been stored one after the other.
C29_Witness ==
    /\ pc = "idle"
    /\ nreq = 2
    /\ session.processed_text = TextParis
    /\ session.last_processed_hash = Md5(TextParis)
    /\ session.entities # <<>>
    /\ \E t \in ProcessTexts \ {TextParis} : CacheHit("extract_entities", t)

\* C30: a request for the text processed last, or for a text that is empty or
\* white space only, returns at once: no step of the pipeline runs (no tagger
\* call, no external call, nothing cached) and every field of the session
\* state stays as it was, analysis_title too.
C30_RepeatedOrBlankChangesNothing ==
    [][ (/\ pc = "idle"
         /\ nreq' = nreq + 1
         /\ \/ Strip(input_text') = <<>>
            \/ Md5(input_text') = session.last_processed_hash)
        => /\ pc' = "idle"
           /\ session' = session
           /\ cache' = cache
           /\ pt_entities' = pt_entities ]_vars

\* The text processed last was sent again under another title.
C30_Witness ==
    /\ pc = "idle"
    /\ nreq = 2
    /\ session.processed_text = input_text
    /\ Strip(input_text) # <<>>
    /\ title # session.analysis_title

(***************************************************************************)
(* SpecHtml: one call of create_highlighted_html on a text and its entity, *)
(* which has any of the link fields and of the coordinates.                *)
(***************************************************************************)
\* The texts and the entity extracted from each.
HtmlTexts == {TextAcmeUk, TextParis, TextBob, TextElmRoad}

\* The fields that decide how an entity is rendered, with the values the
\* pipeline stores in them.
HtmlFields ==
    { [wikipedia_url |-> "https://en.wikipedia.org/wiki/Title"],
      [wikidata_url |-> "http://www.wikidata.org/entity/Q1"],
      [britannica_url |-> "https://www.britannica.com/topic/title"],
      [openstreetmap_url |-> "https://www.openstreetmap.org/?mlat=51&mlon=0&zoom=18"],
      [latitude |-> 51, longitude |-> 0] }

\* The entity e with the fields of every record of rs.
RECURSIVE UpdateAll(_, _)
UpdateAll(e, rs) ==
    IF rs = {} THEN e
    ELSE LET r == CHOOSE x \in rs : TRUE
         IN  UpdateAll(Update(e, r), rs \ {r})

HtmlCalls ==
    {[fn |-> "create_highlighted_html", text |-> t,
      entities |-> <<UpdateAll(ExtractEntities(t)[1], rs)>>] :
        t \in HtmlTexts, rs \in SUBSET HtmlFields}

InitHtml ==
    /\ call \in HtmlCalls
    /\ ret = "none"
    /\ context_clues = <<>>
    /\ pc = "call"
    /\ ResolveIdle
    /\ ExtractIdle
    /\ ProcessIdle
    /\ StepIdle

CallCreateHighlightedHtml ==
    /\ pc = "call"
    /\ call.fn = "create_highlighted_html"
    /\ ret' = CreateHighlightedHtml(call.text, call.entities)
    /\ pc' = "done"
    /\ UNCHANGED <<call, candidates, entities, filtered, idx, extractVars, geoVars,
                   procVars, stepVars>>

NextHtml == CallCreateHighlightedHtml

SpecHtml == InitHtml /\ [][NextHtml]_vars

\* The pieces of the result with this tag.
C22_Pieces(tag) == {k \in 1..Len(ret) : ret[k].tag = tag}

\* C22: the entity is linked to exactly one URL, that of Wikipedia if it has
\* one, else that of Wikidata, else that of Britannica, else that of
\* OpenStreetMap; with coordinates and no link it is highlighted without a
\* link; with no link and no latitude it is not highlighted.
C22_LinkByPriority ==
    (pc = "done" /\ call.fn = "create_highlighted_html") =>
        LET e == call.entities[1]
            url == IF "wikipedia_url" \in DOMAIN e THEN e.wikipedia_url
                   ELSE IF "wikidata_url" \in DOMAIN e THEN e.wikidata_url
                   ELSE IF "britannica_url" \in DOMAIN e THEN e.britannica_url
                   ELSE IF "openstreetmap_url" \in DOMAIN e THEN e.openstreetmap_url
                   ELSE ""
        IN  IF url # ""
            THEN /\ C22_Pieces("span") = {}
                 /\ Cardinality(C22_Pieces("a")) = 1
                 /\ \A k \in C22_Pieces("a") : ret[k].href = EscapeUrl(url)
            ELSE IF "latitude" \in DOMAIN e
            THEN C22_Pieces("a") = {} /\ Cardinality(C22_Pieces("span")) = 1
            ELSE C22_Pieces("a") = {} /\ C22_Pieces("span") = {}

\* An entity with the links of Wikidata, Wikipedia and Britannica was
\* rendered as a link to Wikipedia.
C22_Witness ==
    /\ pc = "done"
    /\ call.fn = "create_highlighted_html"
    /\ {"wikidata_url", "wikipedia_url", "britannica_url"} \subseteq DOMAIN call.entities[1]
    /\ \E k \in 1..Len(ret) :
          ret[k].tag = "a" /\ ret[k].href = "https://en.wikipedia.org/wiki/Title"

(***************************************************************************)
(* The loop of _remove_overlapping_entities.                               *)
(***************************************************************************)
\* The accepted entities that the candidate under examination overlaps.
C28_Overlapped ==
    {k \in 1..Len(filtered) : Intersect(entities[idx], filtered[k])}

\* C28: at every iteration of the loop the accepted list is pairwise
\* non-overlapping and the candidate under examination overlaps at most one
\* accepted entity, so nothing lies beyond the first overlap that is found.
C28_AtMostOneOverlap ==
    pc = "loop" =>
        /\ \A i, j \in 1..Len(filtered) :
              i # j => ~Intersect(filtered[i], filtered[j])
        /\ idx <= Len(entities) =>
              /\ Cardinality(C28_Overlapped) <= 1
              /\ C28_Overlapped \subseteq {FirstOverlap(entities[idx], filtered)}

\* Two entities are accepted and the third candidate overlaps one of them.
C28_Witness ==
    /\ pc = "loop"
    /\ idx = 3
    /\ Len(entities) = 3
    /\ Len(filtered) = 2
    /\ Cardinality(C28_Overlapped) = 1

(***************************************************************************)
(* Properties of the geocoding step of process_text.                       *)
(***************************************************************************)
\* The place filter of process_text has just run: get_coordinates is about
\* to be called, or is not called because place_entities is empty.
C24_Filtered ==
    \/ pc = "get_coordinates_call"
    \/ pc = "link_to_openstreetmap" /\ loop_i = 1 /\ place_entities = <<>>

\* C24: every entity of a place-like type, ADDRESS included, that has no
\* coordinates is in the list that process_text passes to get_coordinates.
C24_EveryPlaceIsPassed ==
    C24_Filtered =>
        \A j \in 1..Len(pt_entities) :
            (pt_entities[j].type \in place_types /\ ~HasValue(pt_entities[j], "latitude"))
                => \E k \in 1..Len(place_entities) : place_entities[k] = j

\* The queries _try_openstreetmap has sent for the entity at position i.
C25_DirectQueries(i) ==
    {key \in DOMAIN sent : key[1] = i /\ key[2] = "openstreetmap"}

\* C25: once _try_openstreetmap has run for an entity, after the contextual
\* and the library strategies failed, exactly one query has been sent for it
\* by that strategy, with the entity text verbatim.
C25_DirectSearchSendsOneQuery ==
    \A n \in 1..Len(invoked) :
        invoked[n][2] = "openstreetmap" =>
            /\ Cardinality(C25_DirectQueries(invoked[n][1])) = 1
            /\ \A key \in C25_DirectQueries(invoked[n][1]) :
                  key[4] = pt_entities[invoked[n][1]].text

\* C27: whatever errors the providers raised, when the call of
\* get_coordinates is over every strategy up to the one that succeeded, or
\* every one of the four, has been attempted for every entity of a place type
\* that had no latitude, the entities after a failed one included.
C27_ErrorsAreAbsorbed ==
    pc \in {"get_coordinates_returned", "get_coordinates_raised"} =>
        \A i \in 1..Len(called_with) :
            (called_with[i].type \in place_types /\ ~HasValue(called_with[i], "latitude")) =>
                LET mine == InvokedFor(i, Len(invoked)) IN
                /\ mine # <<>>
                /\ Succeeded(i) \/ mine = strategies

(***************************************************************************)
(* SpecBritannica: the body of the loop of link_to_britannica (lines       *)
(* 242-269) for one entity and one page of search results.                 *)
(***************************************************************************)
\* lines 261-262: the test on the text of a link.
LinkTextMatches(entity_text, link_text) ==
    \/ Contains(Lower(link_text), Lower(entity_text))
    \/ Contains(Lower(entity_text), Lower(link_text))

\* lines 260-265: the index of the link at which the loop breaks, 0 if it
\* runs to the end.
FirstMatchingLink(entity_text, matches) ==
    IF \E k \in 1..Len(matches) : LinkTextMatches(entity_text, matches[k].link_text)
    THEN CHOOSE k \in 1..Len(matches) :
            /\ LinkTextMatches(entity_text, matches[k].link_text)
            /\ \A j \in 1..(k - 1) : ~LinkTextMatches(entity_text, matches[j].link_text)
    ELSE 0

\* lines 244-265 for a response of status 200 whose text has these links.
LinkEntityToBritannica(e, matches) ==
    IF BritannicaSkips(e) THEN e
    ELSE LET k == FirstMatchingLink(e.text, matches) IN
         IF k = 0 THEN e
         ELSE Update(e, [britannica_url |->
                             "https://www.britannica.com" \o matches[k].url_path,
                         britannica_title |-> Strip(matches[k].link_text)])

\* re.findall(pattern, response.text), lines 257-258: pairs of a path that
\* starts with /topic/ and a link text without "<", which may be empty.
BritannicaLinks ==
    { [url_path |-> "/topic/empty", link_text |-> <<>>],
      [url_path |-> "/topic/bob-dylan",
       link_text |-> <<"B", "o", "b", " ", "D", "y", "l", "a", "n">>],
      [url_path |-> "/topic/bob", link_text |-> <<"B", "O", "B">>],
      [url_path |-> "/topic/paris", link_text |-> <<"p", "a", "r", "i", "s">>],
      [url_path |-> "/topic/rome", link_text |-> <<"R", "o", "m", "e">>] }

MaxLinks == 2      \* most links in a page of search results

BritannicaEntities ==
    LET bob == ExtractEntities(TextBob)[1]
        paris == ExtractEntities(TextParis)[1]
    IN  {bob, paris,
         Update(paris, [wikipedia_url |-> "https://en.wikipedia.org/wiki/Title",
                        wikipedia_title |-> "Title"])}

InitBritannica ==
    /\ call \in [fn : {"link_to_britannica"}, entity : BritannicaEntities,
                 matches : SeqsUpTo(BritannicaLinks, MaxLinks)]
    /\ ret = "none"
    /\ context_clues = <<>>
    /\ pc = "call"
    /\ ResolveIdle
    /\ ExtractIdle
    /\ ProcessIdle
    /\ StepIdle

CallLinkToBritannica ==
    /\ pc = "call"
    /\ call.fn = "link_to_britannica"
    /\ ret' = LinkEntityToBritannica(call.entity, call.matches)
    /\ pc' = "done"
    /\ UNCHANGED <<call, candidates, entities, filtered, idx, extractVars, geoVars,
                   procVars, stepVars>>

NextBritannica == CallLinkToBritannica

SpecBritannica == InitBritannica /\ [][NextBritannica]_vars

\* The text of a link is not empty and, without regard to case, is a part of
\* the entity text or has the entity text as a part.
C26_Overlaps(entity_text, link_text) ==
    /\ link_text # <<>>
    /\ \/ Contains(Lower(link_text), Lower(entity_text))
       \/ Contains(Lower(entity_text), Lower(link_text))

\* C26: britannica_url is set only from a link whose text is non-empty and,
\* case-insensitively, is a substring of the entity text or contains it, and
\* that link is the first such link of the page.
C26_LinkOnlyFromOverlappingText ==
    (pc = "done" /\ call.fn = "link_to_britannica" /\ HasValue(ret, "britannica_url")) =>
        \E k \in 1..Len(call.matches) :
            /\ C26_Overlaps(call.entity.text, call.matches[k].link_text)
            /\ \A j \in 1..(k - 1) :
                  ~C26_Overlaps(call.entity.text, call.matches[j].link_text)
            /\ ret.britannica_url = "https://www.britannica.com" \o call.matches[k].url_path

(***************************************************************************)
(* SpecScenario: process_text on a fresh session for the text              *)
(* "Barack Obama visited London in 2021.", from the extraction to the      *)
(* session state, with geocoding providers that know one query only.       *)
(***************************************************************************)
LondonUk == <<"L", "o", "n", "d", "o", "n", ",", " ", "U", "K">>

\* The geocoding providers of the scenario: none raises an exception that
\* leaves get_coordinates, a query for "London, UK" finds coordinates and
\* every other query leaves the entity as it is.
ScenarioProviders ==
    /\ pc' # "get_coordinates_raised"
    /\ \A key \in DOMAIN sent' \ DOMAIN sent :
          key[2] \in {"contextual", "python", "aggressive"} =>
              IF key[4] = LondonUk
              THEN /\ HasValue(pt_entities'[key[1]], "geocoding_source")
                   /\ HasValue(pt_entities'[key[1]], "longitude")
              ELSE pt_entities' = pt_entities

InitScenario ==
    /\ pc = "link_to_wikidata"
    /\ input_text = TextObama
    /\ pt_entities = ExtractEntities(TextObama)
    /\ loop_i = 1
    /\ session = InitSession
    /\ title = "text_analysis"
    /\ geo_context = <<>>
    /\ cache = {}
    /\ nreq = 1
    /\ place_entities = <<>>
    /\ called_with = <<>>
    /\ strategy = [name |-> "none"]
    /\ events = <<>>
    /\ sent = <<>>
    /\ invoked = <<>>
    /\ ncalls = 0
    /\ ResolveIdle
    /\ ExtractIdle
    /\ HelperIdle

\* The steps of the enrichment with the providers of the scenario.
ScenarioEnrich == NextEnrich /\ ScenarioProviders

\* lines 1068-1084: the visualization, then the session state.
ScenarioStore ==
    /\ pc = "create_highlighted_html"
    /\ session' = StoredSession(session, input_text, pt_entities, title)
    /\ pc' = "idle"
    /\ UNCHANGED <<input_text, title, pt_entities, geo_context, cache, nreq,
                   otherVars, stepVars>>

NextScenario == ScenarioEnrich \/ ScenarioStore

SpecScenario == InitScenario /\ [][NextScenario]_vars

\* C23: the pipeline has exactly the two entities Barack Obama (PERSON) and
\* London (LOCATION) from the extraction on, and when the request is over the
\* session state holds them and London has a latitude and a longitude.
C23_EndToEnd ==
    /\ Len(pt_entities) = 2
    /\ pt_entities[1].text = SubSeq(TextObama, 1, 12)
    /\ pt_entities[1].type = "PERSON"
    /\ pt_entities[2].text = SubSeq(TextObama, 22, 27)
    /\ pt_entities[2].type = "LOCATION"
    /\ pc = "idle" =>
          /\ session.entities = pt_entities
          /\ HasValue(session.entities[2], "latitude")
          /\ HasValue(session.entities[2], "longitude")

\* The request is over and London was located by the query "London, UK" of
\* the aggressive strategy.
C23_Witness ==
    /\ pc = "idle"
    /\ Len(session.entities) = 2
    /\ HasValue(session.entities[2], "search_term_used")
    /\ session.entities[2].search_term_used = LondonUk
    /\ session.entities[2].geocoding_source = "openstreetmap_aggressive"
    /\ ~HasValue(session.entities[1], "latitude")

====
